---- MODULE Spec2Model ----
(***************************************************************************)
(* Winston: the POST /buy purchase pipeline (src/routes/domains.ts), the   *)
(* idempotency ledger and per-key mutex (lib/idem.ts, db/repo.ts) and the  *)
(* spend ledger (lib/spend.ts).                                            *)
(*                                                                         *)
(* Money is in cents.  Time is in hours (the idempotency TTL of 3600 s is  *)
(* one hour).  One action is one continuation of an async function: the    *)
(* effect of the awaited I/O operation followed by the synchronous code up *)
(* to the next await.                                                      *)
(***************************************************************************)
EXTENDS Integers, Sequences, FiniteSets, TLC

\* ------------------------------------------------------------------ bounds
NumReqs == 2            \* POST /buy requests in one behaviour
NumCallers == 4         \* callers of acquire/release in the mutex harness
NumBuyers == 4          \* POST /buy requests in the spend-ledger runs
NumIdemCallers == 2     \* callers of begin/commit/fail in the ledger harness
NumConsumes == 4        \* calls of RateLimiter.consume in one behaviour
RATE_LIMIT_RPM == 2     \* configured requestsPerMinute
RATE_LIMIT_BURST == 1   \* configured burstSize
NumOtherConsumes == 1   \* consume calls of another key in one behaviour
NumDomains == 7         \* domains handed to one checkAvailability call
MaxDriverCalls == 3     \* calls of the registrar driver in one behaviour
MaxRecords == 2         \* DNS records in one applyRecords call
MaxULen == 3            \* code points in a string that is punycode-encoded
MaxRawLen == 3          \* code points in a label handed in as it is
MaxCands == 2           \* candidates in a search body, apart from the
                        \* uniform lists of 10, 11 and 20
MaxTime == 1            \* hours the clock may advance
MAX_PER_TXN_USD == 1350 \* configured per-transaction cap, in cents
MAX_DAILY_USD == 2500   \* configured daily cap, in cents

\* ------------------------------------------------------ program constants
DRIFT_TOLERANCE == 50   \* 0.50 USD
IDEM_TTL == 1           \* 3600 s
HOURS_PER_DAY == 24
WINDOW_MS == 60000      \* rateLimit.ts:54 windowMs
MS_PER_SEC == 1000      \* rateLimit.ts:79
DEFAULT_PRICE == 1200         \* porkbun.ts:364, cents
ICANN_FEE == 18               \* porkbun.ts:368, cents
MAX_LABEL_LENGTH == 63        \* homograph.ts:151
MAX_CANDIDATES == 20          \* SearchSchema candidates max
DEFAULT_LIMIT == 10           \* SearchSchema limit default
MAX_LIMIT == 50               \* SearchSchema limit max
MIN_NAMESERVERS == 2          \* porkbun.ts:583
MAX_NAMESERVERS == 13         \* porkbun.ts:583
\* porkbun.ts:199 and domains.ts:600 retries = 3
MAX_ATTEMPTS == 3
\* porkbun.ts:355 the concurrency handed to pLimit
CONCURRENCY_LIMIT == 5
\* rateLimit.ts:181 the middleware's fallback Retry-After, seconds
DEFAULT_RETRY_AFTER == 60
BUCKET_EXPIRY_MS == 600000  \* rateLimit.ts:119 expiryMs

\* ------------------------------------------------------------ input sets
Reqs == 1..NumReqs
Callers == 1..NumCallers
Buyers == 1..NumBuyers
IdemCallers == 1..NumIdemCallers
Domains == {"a.com", "b.com"}
IdemKeys == {"uuid1"}
YearsSet == {1}
QuotedTotals == {1200, 1301, 1400}
Prices == {1250, 1251}
Accounts == {"u1", "anon"}
MutexKeys == {<<"key1">>, <<"key2">>}

NoReq == [domain |-> "", idempotency_key |-> "", years |-> 0,
          quoted_total_usd |-> 0, acct |-> ""]
NoRow == [digest |-> <<>>, response |-> <<>>, expiresAt |-> -1]
NoResult == [status |-> 0, error |-> "", body |-> <<>>]

VARIABLES
  now,         \* wall clock, hours
  idemRows,    \* table Idem: key -> row
  locks,       \* IdempotencyStore.locks: key -> promise (named by its creator)
  waitQ,       \* promise -> callers awaiting it, in await order
  domainTbl,   \* table Domain: name -> status
  purchases,   \* table Purchase
  dailySpend,  \* table DailySpend: <<accountKey, day>> -> totalUsd
  audit,       \* table AuditLog, counted per verb
  buys,        \* lib/store.ts buys
  pc,          \* per request: the await it is suspended at
  req,         \* per request: validated input
  loc,         \* per request: locals of the handler
  result,      \* per request: what the client received
  hist,        \* per request: registrar calls made on its behalf, and the
               \* requests that were in flight when it arrived
  mpc,         \* mutex harness: per caller position
  mkey,        \* mutex harness: per caller key
  mcur,        \* mutex harness: per caller value read from the counter
  counter,     \* mutex harness: shared counter per key
  spc,         \* spend-ledger runs: per request, the await it is suspended at
  sloc,        \* spend-ledger runs: per request, locals of the handler
  ipc,         \* Idem harness: per caller, the await inside begin
  iloc,        \* Idem harness: per caller, `now` of idemBegin
  iret,        \* Idem harness: per caller, what its last begin returned
  rnow,        \* rate limiter: Date.now(), ms
  bucket,      \* rate limiter: buckets.get(key)
  rret,        \* rate limiter: what the last consume returned
  rcalls,      \* rate limiter: consume calls made
  rticked,     \* rate limiter: the clock moved since the last call
  rallowed,    \* rate limiter: times of the calls answered allowed
  obucket,     \* rate limiter: TokenBucket of another key
  ocalls,      \* rate limiter: consume calls made for the other key
  provider,    \* registrar driver: created or not, and its dryRun flag
  pricingCache,\* registrar driver: the pricing cache is filled and fresh
  fetched,     \* registrar driver: endpoints a request was sent to
  dret,        \* registrar driver: what the last driver call returned
  dcalls,      \* registrar driver: driver calls made
  draised,     \* registrar driver: an error condition was raised inside
               \* the last driver call
  linput,      \* label filter: the string handed in, and allowUnicode
  lres,        \* label filter: what analyzeLabelSafety returned
  sinput,      \* POST /search: the request body and the configuration
  sres,        \* POST /search: the response
  stres,       \* GET /status/:domain: the last response
  ccall,       \* callPorkbun / callNamecheap: the call in progress
  pool         \* pLimit inside checkAvailability: the fan-out in progress

vars == <<now, idemRows, locks, waitQ, domainTbl,
          purchases, dailySpend, audit, buys, pc, req, loc, result, hist,
          mpc, mkey, mcur, counter, spc, sloc, ipc, iloc, iret,
          rnow, bucket, rret, rcalls, rticked, rallowed, obucket, ocalls,
          provider, pricingCache, fetched, dret, dcalls, draised,
          linput, lres, sinput, sres, stres, ccall, pool>>

dbVars == <<idemRows, domainTbl, purchases, dailySpend, audit>>
buyVars == <<pc, req, loc, result, hist>>
rateVars == <<rnow, bucket, rret, rcalls, rticked, rallowed, obucket, ocalls>>
driverVars == <<provider, pricingCache, fetched, dret, dcalls, draised>>
labelVars == <<linput, lres>>
searchVars == <<sinput, sres>>
pureVars == <<labelVars, searchVars>>
statusVars == <<stres>>
upstreamVars == <<ccall, pool>>
harnessVars == <<mpc, mkey, mcur, counter, spc, sloc, ipc, iloc, iret, rateVars,
                 driverVars, pureVars, statusVars, upstreamVars>>

\* ------------------------------------------------------------- helpers
SeqsUpTo(S, n) == UNION {[1..k -> S] : k \in 0..n}

Abs(x) == IF x < 0 THEN -x ELSE x

Max(a, b) == IF a > b THEN a ELSE b

\* domains.ts:213  key = `buy:${domain}:${input.idempotency_key}`
BuyKey(q) == <<"buy", q.domain, q.idempotency_key>>

BuyKeys == {<<"buy", d, k>> : d \in Domains, k \in IdemKeys}

AllKeys == BuyKeys \cup MutexKeys

\* lib/idem.ts stableDigest: SHA-256 of the JSON of the four fields with
\* sorted keys (domain, quoted_total_usd, whois_privacy, years); distinct
\* field tuples give distinct digests.
stableDigest(q) == <<q.domain, q.quoted_total_usd, TRUE, q.years>>

\* lib/auth.ts getUser: the user attached by the auth middleware, if any
getUser(q) == IF q.acct = "anon" THEN "" ELSE q.acct

\* lib/date.ts todayISO
todayISO(t) == t \div HOURS_PER_DAY

Days == {todayISO(t) : t \in 0..(HOURS_PER_DAY + MaxTime)}

\* repo.ts dailySpendGet
dailySpendGet(acct, dayISO) == dailySpend[<<acct, dayISO>>]

\* a promise is named by the request or caller whose acquire created it
Promises == 0..Max(NumReqs, NumCallers)
NoLock == 0

\* JSON.stringify(response) as stored in Idem.responseJson (repo.ts:105-107)
ToJson(resp) == <<resp.order_id, resp.charged_total_usd, resp.domainId>>

\* JSON.parse(entry.responseJson) (idem.ts:61)
FromJson(js) == [order_id |-> js[1], charged_total_usd |-> js[2], domainId |-> js[3]]

\* locals of one run of the /buy handler; beginNow and expiresAt are live only
\* between the call that computes them and the database operation using them
InitLoc == [beginNow |-> 0, server_total |-> 0, charged |-> 0, expiresAt |-> 0,
            err |-> NoResult, failedAt |-> ""]
InitHist == [register |-> FALSE, dns |-> FALSE, fail |-> FALSE, overlap |-> {}]

Err(status, name) == [status |-> status, error |-> name, body |-> <<>>]

\* domains.ts:251-252 price drift test
PriceDriftOneSided(server_total, quoted) == server_total - quoted > DRIFT_TOLERANCE

PriceDrift(server_total, quoted) == Abs(server_total - quoted) > DRIFT_TOLERANCE

\* domains.ts:225 digest test on the replay path
DigestMismatchNever(existing, q) == FALSE

DigestMismatch(existing, q) == existing.digest # stableDigest(q)

\* repo.ts:70-77 idemBegin's findUnique and expiry test: a read
idemBeginFindDeletes(k) == [idemRows EXCEPT ![k] = NoRow]

idemBeginFind(k) == idemRows

\* repo.ts:130-134 idemFail: deleteMany on the key
idemFailNoDelete(k) == idemRows

idemFail(k) == [idemRows EXCEPT ![k] = NoRow]

\* repo.ts:98-123 idemCommit: upsert of the row
idemCommit(k, digest, response, expiresAt) ==
  [idemRows EXCEPT ![k] = [digest |-> digest, response |-> ToJson(response),
                           expiresAt |-> expiresAt]]

\* repo.ts:173-198 dailySpendAdd: upsert with atomic increment
dailySpendAddOverwrite(acct, dayISO, amount) ==
  [dailySpend EXCEPT ![<<acct, dayISO>>] = amount]

dailySpendAdd(acct, dayISO, amount) ==
  [dailySpend EXCEPT ![<<acct, dayISO>>] = @ + amount]

\* domains.ts:199 daily cap test
DailyCapIgnoresQuote(todaySpent, quoted) == todaySpent > MAX_DAILY_USD

DailyCapExceeded(todaySpent, quoted) == todaySpent + quoted > MAX_DAILY_USD

\* rateLimit.ts:15-19 TokenBucket; none before the key's first request
NoBucket == [exists |-> FALSE, tokens |-> 0, lastRefill |-> 0,
             requestTimestamps |-> <<>>]

NoConsume == [allowed |-> TRUE, retryAfterSec |-> 0]
\* no call of analyzeLabelSafety yet
NoLabelInput == [kind |-> "none", s |-> <<>>, allowUnicode |-> FALSE]
NoAnalysis == [done |-> FALSE, label |-> <<>>, safe |-> FALSE, reasons |-> <<>>]
\* no callPorkbun / callNamecheap yet
NoUpstreamCall == [driver |-> "", state |-> "idle", attempt |-> 0, code |-> "",
                   seen |-> <<>>]
\* no checkAvailability fan-out yet
NoPool == [state |-> "idle", n |-> 0, next |-> 0, executing |-> {},
           results |-> <<>>]
\* no GET /status/:domain yet
NoStatus == [domain |-> "", state |-> ""]
\* no POST /search yet
NoSearch == [path |-> "none"]
NoResponse == [done |-> FALSE, ok |-> FALSE, error |-> "", body |-> <<>>,
               audited |-> FALSE]
\* no PorkbunProvider constructed yet; dryRun defaults to true
NoProvider == [created |-> FALSE, dryRun |-> TRUE]
\* no driver call has returned yet
NoCall == [op |-> "none", outcome |-> "none", success |-> FALSE,
           order_id |-> <<>>, entries |-> <<>>]

\* BeginResult of idem.ts:17-23, or the error begin threw
NoRet == [kind |-> "none", response |-> <<>>, digest |-> <<>>]

BeginOk == [kind |-> "ok", response |-> <<>>, digest |-> <<>>]

BeginThrew == [kind |-> "error", response |-> <<>>, digest |-> <<>>]

\* locals of one request of the spend-ledger runs
InitSLoc == [quoted |-> 0, today |-> 0, charged |-> 0, res |-> ""]

\* ------------------------------------------------------------------ Init
InitCore(hour) ==
  /\ now = hour
  /\ stres = NoStatus
  /\ ccall = NoUpstreamCall
  /\ pool = NoPool
  /\ idemRows = [k \in BuyKeys |-> NoRow]
  /\ locks = [k \in AllKeys |-> NoLock]
  /\ waitQ = [p \in Promises |-> <<>>]
  /\ domainTbl = [d \in Domains |-> "NONE"]
  /\ purchases = {}
  /\ dailySpend = [ad \in Accounts \X Days |-> 0]
  /\ audit = [BUY_SUCCESS |-> 0, BUY_FAIL |-> 0]
  /\ buys = {}
  /\ pc = [r \in Reqs |-> "idle"]
  /\ req = [r \in Reqs |-> NoReq]
  /\ loc = [r \in Reqs |-> InitLoc]
  /\ result = [r \in Reqs |-> NoResult]
  /\ hist = [r \in Reqs |-> InitHist]
  /\ mpc = [c \in Callers |-> "start"]
  /\ mkey = [c \in Callers |-> <<"key1">>]
  /\ mcur = [c \in Callers |-> 0]
  /\ counter = [k \in MutexKeys |-> 0]
  /\ spc = [b \in Buyers |-> "idle"]
  /\ sloc = [b \in Buyers |-> InitSLoc]
  /\ ipc = [c \in IdemCallers |-> "idle"]
  /\ iloc = [c \in IdemCallers |-> 0]
  /\ iret = [c \in IdemCallers |-> NoRet]
  /\ rnow = 0
  /\ bucket = NoBucket
  /\ rret = NoConsume
  /\ rcalls = 0
  /\ rticked = FALSE
  /\ rallowed = <<>>
  /\ obucket = NoBucket
  /\ ocalls = 0
  /\ provider = NoProvider
  /\ pricingCache = FALSE
  /\ fetched = {}
  /\ dret = NoCall
  /\ dcalls = 0
  /\ draised = FALSE

\* no label has been handed to the filter
InitLabelIdle ==
  /\ linput = NoLabelInput
  /\ lres = NoAnalysis

\* no POST /search has arrived
InitSearchIdle ==
  /\ sinput = NoSearch
  /\ sres = NoResponse

InitAt(hour) == InitCore(hour) /\ InitLabelIdle /\ InitSearchIdle

Init == InitAt(0)

\* ---------------------------------------------- IdempotencyStore mutex
\* idem.ts:95-121 acquire, up to its first suspension.  With no lock in the
\* map the caller installs its own promise and returns; otherwise it awaits
\* the promise found in the map.
AcquireFreeAllKeys(k) == \A j \in AllKeys : locks[j] = NoLock

AcquireFree(k) == locks[k] = NoLock

LocksAfterAcquire(k, c) == [locks EXCEPT ![k] = c]

WaitQAfterAcquire(k, c) == [waitQ EXCEPT ![locks[k]] = Append(@, c)]

\* idem.ts:126-133 release: resolve the promise found in the map and delete
\* the entry.  Every caller awaiting that promise then resumes (idem.ts:109-
\* 120), in await order and before any other I/O completes; each installs its
\* own promise, so the map ends with the promise of the last one resumed.
WokenNone(k) == <<>>

Woken(k) == IF locks[k] = NoLock THEN <<>> ELSE waitQ[locks[k]]

WokenSet(k) == {Woken(k)[i] : i \in 1..Len(Woken(k))}

LocksAfterReleaseKeepsEntry(k) == locks

LocksAfterRelease(k) ==
  IF Woken(k) = <<>> THEN [locks EXCEPT ![k] = NoLock]
  ELSE [locks EXCEPT ![k] = Woken(k)[Len(Woken(k))]]

WaitQAfterRelease(k) ==
  IF locks[k] = NoLock THEN waitQ ELSE [waitQ EXCEPT ![locks[k]] = <<>>]

\* ------------------------------------------------------- POST /buy steps
Inputs == [domain : Domains, idempotency_key : IdemKeys, years : YearsSet,
           quoted_total_usd : QuotedTotals, acct : Accounts]

\* domains.ts:369-376 response
Response(r) == [order_id |-> r, charged_total_usd |-> loc[r].charged,
                domainId |-> req[r].domain]

\* the response leaves through the error handler; nothing is held yet
Reject(r, res) ==
  /\ pc' = [pc EXCEPT ![r] = "done"]
  /\ result' = [result EXCEPT ![r] = res]

\* a throw inside the try block: control goes to the catch (domains.ts:392)
Throw(r, e) ==
  /\ pc' = [pc EXCEPT ![r] = "catchFail"]
  /\ loc' = [loc EXCEPT ![r].err = e, ![r].failedAt = pc[r]]

\* domains.ts:243 with idem.ts:95-121
Acquire(r) ==
  LET k == BuyKey(req[r]) IN
  IF AcquireFree(k)
  THEN /\ locks' = LocksAfterAcquire(k, r)
       /\ waitQ' = waitQ
       /\ pc' = [pc EXCEPT ![r] = "requote"]
  ELSE /\ locks' = locks
       /\ waitQ' = WaitQAfterAcquire(k, r)
       /\ pc' = [pc EXCEPT ![r] = "mutexWait"]

\* domains.ts:410-413 finally, then the response or the error leaves
ReleaseAndFinish(r, res) ==
  LET k == BuyKey(req[r]) IN
  /\ locks' = LocksAfterRelease(k)
  /\ waitQ' = WaitQAfterRelease(k)
  /\ pc' = [x \in Reqs |-> IF x = r THEN "done"
                           ELSE IF x \in WokenSet(k) THEN "requote"
                           ELSE pc[x]]
  /\ result' = [result EXCEPT ![r] = res]

\* domains.ts:138-198: validation, the per-transaction cap, the provisional
\* quote with the premium check (the registrar's answer and allow_premium
\* are free), then the call of spend.getTotal
Start(r) ==
  /\ pc[r] = "idle"
  /\ \A x \in Reqs : x < r => pc[x] # "idle"
  /\ \E q \in Inputs :
       /\ req' = [req EXCEPT ![r] = q]
       /\ IF q.quoted_total_usd > MAX_PER_TXN_USD
          THEN Reject(r, Err(400, "SpendCapExceeded"))
          ELSE \/ Reject(r, Err(500, "ProviderError"))
               \/ Reject(r, Err(400, "PremiumNotAllowed"))
               \/ /\ pc' = [pc EXCEPT ![r] = "getTotal"]
                  /\ result' = result
  /\ hist' = [hist EXCEPT ![r].overlap = {x \in Reqs : pc[x] \notin {"idle", "done"}}]
  /\ UNCHANGED <<now, locks, waitQ, buys, loc>>
  /\ UNCHANGED dbVars
  /\ UNCHANGED harnessVars

\* domains.ts:197-222: daily cap from spend.getTotal, then key, digest and
\* the call of idem.begin (repo.ts:68 takes the time of the call)
GetTotal(r) ==
  /\ pc[r] = "getTotal"
  /\ \/ /\ Reject(r, Err(500, "InternalError"))
        /\ loc' = loc
     \/ LET todaySpent == dailySpendGet(req[r].acct, todayISO(now)) IN
        IF DailyCapExceeded(todaySpent, req[r].quoted_total_usd)
        THEN /\ Reject(r, [status |-> 400, error |-> "DailyCapExceeded",
                           body |-> <<Max(0, MAX_DAILY_USD - todaySpent)>>])
             /\ loc' = loc
        ELSE /\ pc' = [pc EXCEPT ![r] = "beginFind"]
             /\ loc' = [loc EXCEPT ![r].beginNow = now]
             /\ result' = result
  /\ UNCHANGED <<now, locks, waitQ, buys, req, hist>>
  /\ UNCHANGED dbVars
  /\ UNCHANGED harnessVars

\* repo.ts:70-77 findUnique and the expiry test, idem.ts:56-68, then
\* domains.ts:223-243: replay, mismatch, or go on to acquire
BeginFind(r) ==
  LET k == BuyKey(req[r])
      existing == idemRows[k] IN
  /\ pc[r] = "beginFind"
  /\ loc' = [loc EXCEPT ![r].beginNow = 0]
  /\ \/ /\ Reject(r, Err(500, "InternalError"))
        /\ UNCHANGED <<locks, waitQ>>
     \/ /\ existing # NoRow
        /\ existing.expiresAt > loc[r].beginNow
        /\ IF DigestMismatch(existing, req[r])
           THEN Reject(r, Err(409, "IdempotencyMismatch"))
           ELSE Reject(r, [status |-> 200, error |-> "",
                           body |-> FromJson(existing.response)])
        /\ UNCHANGED <<locks, waitQ>>
     \/ /\ existing # NoRow
        /\ existing.expiresAt <= loc[r].beginNow
        /\ pc' = [pc EXCEPT ![r] = "beginDelete"]
        /\ UNCHANGED <<locks, waitQ, result>>
     \/ /\ existing = NoRow
        /\ Acquire(r)
        /\ result' = result
  /\ UNCHANGED <<now, buys, req, hist>>
  /\ idemRows' = idemBeginFind(k)
  /\ UNCHANGED <<domainTbl, purchases, dailySpend, audit>>
  /\ UNCHANGED harnessVars

\* repo.ts:80-86 delete of the expired row (delete of a missing row throws),
\* then domains.ts:243
BeginDelete(r) ==
  LET k == BuyKey(req[r]) IN
  /\ pc[r] = "beginDelete"
  /\ \/ /\ Reject(r, Err(500, "InternalError"))
        /\ UNCHANGED <<locks, waitQ, idemRows>>
     \/ /\ idemRows[k] # NoRow
        /\ idemRows' = [idemRows EXCEPT ![k] = NoRow]
        /\ Acquire(r)
        /\ result' = result
  /\ UNCHANGED <<now, buys, req, loc, hist>>
  /\ UNCHANGED <<domainTbl, purchases, dailySpend, audit>>
  /\ UNCHANGED harnessVars

\* domains.ts:248-267: server-side re-quote and the drift check
Requote(r) ==
  /\ pc[r] = "requote"
  /\ \/ Throw(r, Err(500, "ProviderError"))
     \/ \E p \in Prices :
          IF PriceDrift(p, req[r].quoted_total_usd)
          THEN /\ pc' = [pc EXCEPT ![r] = "catchFail"]
               /\ loc' = [loc EXCEPT ![r].err = Err(409, "PriceDrift"),
                                     ![r].failedAt = "requote",
                                     ![r].server_total = p]
          ELSE /\ pc' = [pc EXCEPT ![r] = "register"]
               /\ loc' = [loc EXCEPT ![r].server_total = p]
  /\ UNCHANGED <<now, locks, waitQ, buys, req, result, hist>>
  /\ UNCHANGED dbVars
  /\ UNCHANGED harnessVars

\* porkbun.ts:430-508 register as seen by domains.ts:267-305: it throws,
\* returns success=false (domain not available, or the registrar refused),
\* or returns an order with the amount charged.  In dry-run mode nothing
\* changes at the registrar, so whether a later register of the same domain
\* succeeds is the registrar's answer alone.  Then the DNS template lookup.
Register(r) ==
  /\ pc[r] = "register"
  /\ hist' = [hist EXCEPT ![r].register = TRUE]
  /\ \/ Throw(r, Err(500, "ProviderError"))
     \/ Throw(r, Err(400, "ValidationError"))
     \/ \E c \in Prices, template \in BOOLEAN :
          IF template
          THEN /\ pc' = [pc EXCEPT ![r] = "dns"]
               /\ loc' = [loc EXCEPT ![r].charged = c]
          ELSE /\ pc' = [pc EXCEPT ![r] = "catchFail"]
               /\ loc' = [loc EXCEPT ![r].charged = c,
                                     ![r].failedAt = "template",
                                     ![r].err = Err(400, "UnknownDnsTemplate")]
  /\ UNCHANGED <<now, locks, waitQ, buys, req, result>>
  /\ UNCHANGED dbVars
  /\ UNCHANGED harnessVars

\* domains.ts:284-311: setNameservers or applyRecords, then the user check
Dns(r) ==
  /\ pc[r] = "dns"
  /\ hist' = [hist EXCEPT ![r].dns = TRUE]
  /\ \/ Throw(r, Err(500, "ProviderError"))
     \/ IF getUser(req[r]) = ""
        THEN Throw(r, Err(401, "Unauthorized"))
        ELSE /\ pc' = [pc EXCEPT ![r] = "domainUpsert"]
             /\ loc' = loc
  /\ UNCHANGED <<now, locks, waitQ, buys, req, result>>
  /\ UNCHANGED dbVars
  /\ UNCHANGED harnessVars

\* domains.ts:318-334
DomainUpsert(r) ==
  /\ pc[r] = "domainUpsert"
  /\ \/ /\ Throw(r, Err(500, "InternalError"))
        /\ UNCHANGED domainTbl
     \/ /\ domainTbl' = [domainTbl EXCEPT ![req[r].domain] = "PURCHASED"]
        /\ pc' = [pc EXCEPT ![r] = "purchaseCreate"]
        /\ loc' = loc
  /\ UNCHANGED <<now, locks, waitQ, buys, req, result, hist>>
  /\ UNCHANGED <<idemRows, purchases, dailySpend, audit>>
  /\ UNCHANGED harnessVars

\* domains.ts:339-349 (Purchase.orderId is unique)
PurchaseCreate(r) ==
  /\ pc[r] = "purchaseCreate"
  /\ \/ /\ Throw(r, Err(500, "InternalError"))
        /\ UNCHANGED purchases
     \/ /\ \A p \in purchases : p.orderId # r
        /\ purchases' = purchases \cup
             {[orderId |-> r, userId |-> getUser(req[r]),
               domainId |-> req[r].domain, totalUsd |-> loc[r].charged,
               createdDay |-> todayISO(now)]}
        /\ pc' = [pc EXCEPT ![r] = "auditSuccess"]
        /\ loc' = loc
  /\ UNCHANGED <<now, locks, waitQ, buys, req, result, hist>>
  /\ UNCHANGED <<idemRows, domainTbl, dailySpend, audit>>
  /\ UNCHANGED harnessVars

\* domains.ts:354-363
AuditSuccess(r) ==
  /\ pc[r] = "auditSuccess"
  /\ \/ /\ Throw(r, Err(500, "InternalError"))
        /\ UNCHANGED audit
     \/ /\ audit' = [audit EXCEPT !.BUY_SUCCESS = @ + 1]
        /\ pc' = [pc EXCEPT ![r] = "spendAdd"]
        /\ loc' = loc
  /\ UNCHANGED <<now, locks, waitQ, buys, req, result, hist>>
  /\ UNCHANGED <<idemRows, domainTbl, purchases, dailySpend>>
  /\ UNCHANGED harnessVars

\* domains.ts:366 with the ledger increment left out
SpendAddLost(r) ==
  /\ pc[r] = "spendAdd"
  /\ \/ Throw(r, Err(500, "InternalError"))
     \/ /\ pc' = [pc EXCEPT ![r] = "spendAddRead"]
        /\ loc' = loc
  /\ UNCHANGED <<now, locks, waitQ, buys, req, result, hist>>
  /\ UNCHANGED dbVars
  /\ UNCHANGED harnessVars

\* domains.ts:366 -> spend.ts:27-29 -> repo.ts:180-197 upsert with increment
SpendAdd(r) ==
  /\ pc[r] = "spendAdd"
  /\ \/ /\ Throw(r, Err(500, "InternalError"))
        /\ UNCHANGED dailySpend
     \/ /\ dailySpend' = dailySpendAdd(req[r].acct, todayISO(now), loc[r].charged)
        /\ pc' = [pc EXCEPT ![r] = "spendAddRead"]
        /\ loc' = loc
  /\ UNCHANGED <<now, locks, waitQ, buys, req, result, hist>>
  /\ UNCHANGED <<idemRows, domainTbl, purchases, audit>>
  /\ UNCHANGED harnessVars

\* spend.ts:31 read-back for the log line, then domains.ts:369-379: build
\* the response and call idem.commit (repo.ts:104 takes the time of the call)
SpendAddRead(r) ==
  /\ pc[r] = "spendAddRead"
  /\ \/ Throw(r, Err(500, "InternalError"))
     \/ /\ pc' = [pc EXCEPT ![r] = "idemCommit"]
        /\ loc' = [loc EXCEPT ![r].expiresAt = now + IDEM_TTL]
  /\ UNCHANGED <<now, locks, waitQ, buys, req, result, hist>>
  /\ UNCHANGED dbVars
  /\ UNCHANGED harnessVars

\* repo.ts:109-122 upsert of the Idem row, then domains.ts:382-391: legacy
\* store, res.json, and the finally
IdemCommit(r) ==
  LET k == BuyKey(req[r]) IN
  /\ pc[r] = "idemCommit"
  /\ \/ /\ pc' = [pc EXCEPT ![r] = "catchFail"]
        /\ loc' = [loc EXCEPT ![r].err = Err(500, "InternalError"),
                              ![r].failedAt = "idemCommit",
                              ![r].expiresAt = 0]
        /\ UNCHANGED <<idemRows, buys, locks, waitQ, result>>
     \/ /\ idemRows' = idemCommit(k, stableDigest(req[r]), Response(r),
                                  loc[r].expiresAt)
        /\ buys' = buys \cup {k}
        /\ \/ /\ pc' = [pc EXCEPT ![r] = "catchFail"]
              /\ loc' = [loc EXCEPT ![r].err = Err(500, "InternalError"),
                                    ![r].failedAt = "respond",
                                    ![r].expiresAt = 0]
              /\ UNCHANGED <<locks, waitQ, result>>
           \/ /\ ReleaseAndFinish(r, [status |-> 200, error |-> "",
                                      body |-> Response(r)])
              /\ loc' = [loc EXCEPT ![r].expiresAt = 0]
  /\ UNCHANGED <<now, req, hist>>
  /\ UNCHANGED <<domainTbl, purchases, dailySpend, audit>>
  /\ UNCHANGED harnessVars

\* domains.ts:394 -> idem.ts:86-89 -> repo.ts:130-134
CatchFail(r) ==
  LET k == BuyKey(req[r]) IN
  /\ pc[r] = "catchFail"
  /\ hist' = [hist EXCEPT ![r].fail = TRUE]
  /\ \/ /\ ReleaseAndFinish(r, Err(500, "InternalError"))
        /\ UNCHANGED idemRows
     \/ /\ idemRows' = idemFail(k)
        /\ pc' = [pc EXCEPT ![r] = "catchAudit"]
        /\ UNCHANGED <<locks, waitQ, result>>
  /\ UNCHANGED <<now, buys, req, loc>>
  /\ UNCHANGED <<domainTbl, purchases, dailySpend, audit>>
  /\ UNCHANGED harnessVars

\* domains.ts:397-413: BUY_FAIL audit, rethrow, finally
CatchAudit(r) ==
  /\ pc[r] = "catchAudit"
  /\ \/ /\ ReleaseAndFinish(r, Err(500, "InternalError"))
        /\ UNCHANGED audit
     \/ /\ audit' = [audit EXCEPT !.BUY_FAIL = @ + 1]
        /\ ReleaseAndFinish(r, loc[r].err)
  /\ UNCHANGED <<now, buys, req, loc, hist>>
  /\ UNCHANGED <<idemRows, domainTbl, purchases, dailySpend>>
  /\ UNCHANGED harnessVars

\* the wall clock
Tick ==
  /\ now < MaxTime
  /\ now' = now + 1
  /\ UNCHANGED <<locks, waitQ, buys>>
  /\ UNCHANGED dbVars
  /\ UNCHANGED buyVars
  /\ UNCHANGED harnessVars

Next ==
  \/ Tick
  \/ \E r \in Reqs :
       \/ Start(r)
       \/ GetTotal(r)
       \/ BeginFind(r)
       \/ BeginDelete(r)
       \/ Requote(r)
       \/ Register(r)
       \/ Dns(r)
       \/ DomainUpsert(r)
       \/ PurchaseCreate(r)
       \/ AuditSuccess(r)
       \/ SpendAdd(r)
       \/ SpendAddRead(r)
       \/ IdemCommit(r)
       \/ CatchFail(r)
       \/ CatchAudit(r)

Spec == Init /\ [][Next]_vars

\* ------------------------------------------------------- mutex harness
\* test/buy-route.spec.ts:197-207 and test/idempotency.spec.ts:121-135: each
\* caller does acquire(key); current = counter; <timer>; counter = current+1;
\* release(key).  The read of the counter is in the continuation that
\* acquire returns to.
MAcquire(c) ==
  /\ mpc[c] = "start"
  /\ \E k \in MutexKeys :
       /\ mkey' = [mkey EXCEPT ![c] = k]
       /\ IF AcquireFree(k)
          THEN /\ locks' = LocksAfterAcquire(k, c)
               /\ waitQ' = waitQ
               /\ mpc' = [mpc EXCEPT ![c] = "cs"]
               /\ mcur' = [mcur EXCEPT ![c] = counter[k]]
          ELSE /\ locks' = locks
               /\ waitQ' = WaitQAfterAcquire(k, c)
               /\ mpc' = [mpc EXCEPT ![c] = "wait"]
               /\ mcur' = mcur
  /\ UNCHANGED <<now, buys, counter, spc, sloc, ipc, iloc, iret>>
  /\ UNCHANGED <<rateVars, driverVars, pureVars, statusVars, upstreamVars>>
  /\ UNCHANGED dbVars
  /\ UNCHANGED buyVars

MRelease(c) ==
  LET k == mkey[c] IN
  /\ mpc[c] = "cs"
  /\ counter' = [counter EXCEPT ![k] = mcur[c] + 1]
  /\ locks' = LocksAfterRelease(k)
  /\ waitQ' = WaitQAfterRelease(k)
  /\ mpc' = [x \in Callers |-> IF x = c THEN "done"
                               ELSE IF x \in WokenSet(k) THEN "cs"
                               ELSE mpc[x]]
  /\ mcur' = [x \in Callers |-> IF x \in WokenSet(k) THEN counter'[k] ELSE mcur[x]]
  /\ UNCHANGED <<now, buys, mkey, spc, sloc, ipc, iloc, iret>>
  /\ UNCHANGED <<rateVars, driverVars, pureVars, statusVars, upstreamVars>>
  /\ UNCHANGED dbVars
  /\ UNCHANGED buyVars

NextMutex == \E c \in Callers : MAcquire(c) \/ MRelease(c)

SpecMutex == Init /\ [][NextMutex]_vars

\* the same callers when every caller that holds a key goes on to its
\* release (idem.release sits in a finally); nobody is obliged to call
\* acquire
SpecMutexLive ==
  /\ Init
  /\ [][NextMutex]_vars
  /\ \A c \in Callers : WF_vars(MRelease(c))

\* ------------------------------------------------- spend-ledger runs
\* POST /buy requests of one user, each with an idempotency key of its own,
\* seen from the spend ledger: with no Idem row and nobody else on its key,
\* a request goes from the cap checks through the guarded region without
\* waiting.  The steps that do not touch DailySpend or Purchase are taken
\* together; the day is the one todayISO() returned when the ledger call was
\* made (spend.ts:21, 28).
BuyerAcct == "u1"

SDone(b, outcome) ==
  /\ spc' = [spc EXCEPT ![b] = "done"]
  /\ sloc' = [sloc EXCEPT ![b] = [InitSLoc EXCEPT !.res = outcome]]

\* domains.ts:138-198: validation, per-transaction cap, provisional quote,
\* call of spend.getTotal
SStart(b) ==
  /\ spc[b] = "idle"
  /\ \A x \in Buyers : x < b => spc[x] # "idle"
  /\ \E q \in QuotedTotals :
       IF q > MAX_PER_TXN_USD
       THEN SDone(b, "SpendCapExceeded")
       ELSE /\ spc' = [spc EXCEPT ![b] = "getTotal"]
            /\ sloc' = [sloc EXCEPT ![b].quoted = q, ![b].today = todayISO(now)]
  /\ UNCHANGED <<now, locks, waitQ, buys, mpc, mkey, mcur, counter, ipc, iloc, iret>>
  /\ UNCHANGED <<rateVars, driverVars, pureVars, statusVars, upstreamVars>>
  /\ UNCHANGED dbVars
  /\ UNCHANGED buyVars

\* domains.ts:198-210: the daily cap test on what spend.getTotal read
SGetTotal(b) ==
  /\ spc[b] = "getTotal"
  /\ IF DailyCapExceeded(dailySpendGet(BuyerAcct, sloc[b].today), sloc[b].quoted)
     THEN SDone(b, "DailyCapExceeded")
     ELSE /\ spc' = [spc EXCEPT ![b] = "purchase"]
          /\ sloc' = [sloc EXCEPT ![b].today = 0]
  /\ UNCHANGED <<now, locks, waitQ, buys, mpc, mkey, mcur, counter, ipc, iloc, iret>>
  /\ UNCHANGED <<rateVars, driverVars, pureVars, statusVars, upstreamVars>>
  /\ UNCHANGED dbVars
  /\ UNCHANGED buyVars

\* domains.ts:213-349: idem.begin, acquire, re-quote within the tolerance,
\* register, DNS, Domain upsert and purchase.create; any of them may fail
SPurchase(b) ==
  /\ spc[b] = "purchase"
  /\ \/ /\ SDone(b, "failed")
        /\ UNCHANGED purchases
     \/ \E p \in Prices, c \in Prices :
          /\ ~PriceDrift(p, sloc[b].quoted)
          /\ purchases' = purchases \cup
               {[orderId |-> b, userId |-> BuyerAcct, domainId |-> "a.com",
                 totalUsd |-> c, createdDay |-> todayISO(now)]}
          /\ spc' = [spc EXCEPT ![b] = "audit"]
          /\ sloc' = [sloc EXCEPT ![b].charged = c, ![b].quoted = 0]
  /\ UNCHANGED <<now, locks, waitQ, buys, mpc, mkey, mcur, counter, ipc, iloc, iret>>
  /\ UNCHANGED <<rateVars, driverVars, pureVars, statusVars, upstreamVars>>
  /\ UNCHANGED <<idemRows, domainTbl, dailySpend, audit>>
  /\ UNCHANGED buyVars

\* domains.ts:354-366: BUY_SUCCESS audit, then the call of spend.add
SAudit(b) ==
  /\ spc[b] = "audit"
  /\ \/ SDone(b, "failed")
     \/ /\ spc' = [spc EXCEPT ![b] = "spendAdd"]
        /\ sloc' = [sloc EXCEPT ![b].today = todayISO(now)]
  /\ UNCHANGED <<now, locks, waitQ, buys, mpc, mkey, mcur, counter, ipc, iloc, iret>>
  /\ UNCHANGED <<rateVars, driverVars, pureVars, statusVars, upstreamVars>>
  /\ UNCHANGED dbVars
  /\ UNCHANGED buyVars

\* spend.ts:27-33 -> repo.ts:173-198; the rest of the handler (read-back,
\* idem.commit, response) leaves the ledger alone
SSpendAdd(b) ==
  /\ spc[b] = "spendAdd"
  /\ \/ /\ SDone(b, "failed")
        /\ UNCHANGED dailySpend
     \/ /\ dailySpend' = dailySpendAdd(BuyerAcct, sloc[b].today, sloc[b].charged)
        /\ spc' = [spc EXCEPT ![b] = "done"]
        /\ sloc' = [sloc EXCEPT ![b].res = "added"]
  /\ UNCHANGED <<now, locks, waitQ, buys, mpc, mkey, mcur, counter, ipc, iloc, iret>>
  /\ UNCHANGED <<rateVars, driverVars, pureVars, statusVars, upstreamVars>>
  /\ UNCHANGED <<idemRows, domainTbl, purchases, audit>>
  /\ UNCHANGED buyVars

\* the wall clock passes midnight
STick ==
  /\ now < HOURS_PER_DAY
  /\ now' = now + 1
  /\ UNCHANGED <<locks, waitQ, buys>>
  /\ UNCHANGED dbVars
  /\ UNCHANGED buyVars
  /\ UNCHANGED harnessVars

NextSpend ==
  \/ STick
  \/ \E b \in Buyers :
       \/ SStart(b)
       \/ SGetTotal(b)
       \/ SPurchase(b)
       \/ SAudit(b)
       \/ SSpendAdd(b)

SpecSpend == InitAt(HOURS_PER_DAY - 1) /\ [][NextSpend]_vars

\* ===================================================================
\* Properties
\* ===================================================================
Started(r) == pc[r] # "idle"

Done(r) == pc[r] = "done"

\* two requests with the same idempotency key and the same digest
SameRequest(r1, r2) ==
  /\ r1 # r2
  /\ Started(r1)
  /\ Started(r2)
  /\ BuyKey(req[r1]) = BuyKey(req[r2])
  /\ stableDigest(req[r1]) = stableDigest(req[r2])

\* r1 was in flight when r2 arrived
Concurrent(r1, r2) == r1 \in hist[r2].overlap

\* register returned an order to r
GotOrder(r) == loc[r].charged # 0

PurchasesOf(r) == {p \in purchases : p.orderId = r}

\* no Idem row can have expired yet
NothingExpired == now < IDEM_TTL

\* nothing was thrown in r's guarded region
NoThrow(r) == loc[r].failedAt = ""

\* C1: of two concurrent POST /buy requests with the same key and digest at
\* most one gets an order from provider.register, and when both answer 200
\* they answer with the same body (same order_id).  Requests in which a
\* guarded step failed are left aside: the claim is checked on the runs
\* where nothing fails.
C1_OneRegisterPerKey ==
  \A r1, r2 \in Reqs :
    (SameRequest(r1, r2) /\ Concurrent(r1, r2) /\ NothingExpired
       /\ NoThrow(r1) /\ NoThrow(r2)) =>
      /\ ~(GotOrder(r1) /\ GotOrder(r2))
      /\ (Done(r1) /\ Done(r2) /\ result[r1].status = 200 /\ result[r2].status = 200)
           => result[r1].body = result[r2].body

\* C2: acquire/release give mutual exclusion per key: at most one caller is
\* in its critical section on a key, and when all callers are done the
\* counter of a key equals the number of callers that used the key.
C2_MutualExclusion ==
  \A k \in MutexKeys :
    /\ Cardinality({c \in Callers : mpc[c] = "cs" /\ mkey[c] = k}) <= 1
    /\ (\A c \in Callers : mpc[c] = "done")
         => counter[k] = Cardinality({c \in Callers : mkey[c] = k})

\* r2 is a retry of r1: the same request, sent after r1 was answered
Retry(r1, r2) == SameRequest(r1, r2) /\ r1 < r2 /\ ~Concurrent(r1, r2)

\* C3: over sequential retries of the same POST /buy, whatever step failed
\* before, at most one register call returns an order and at most one
\* Purchase row results.
C3_RetriesRegisterOnce ==
  \A r1, r2 \in Reqs :
    (Retry(r1, r2) /\ NothingExpired) =>
      /\ ~(GotOrder(r1) /\ GotOrder(r2))
      /\ Cardinality(PurchasesOf(r1) \cup PurchasesOf(r2)) <= 1

\* the Idem row of r's key is the one w committed before r arrived, and it
\* has not expired
StoredBy(w, r) ==
  LET row == idemRows[BuyKey(req[r])] IN
  /\ w < r
  /\ Done(w)
  /\ ~Concurrent(w, r)
  /\ BuyKey(req[w]) = BuyKey(req[r])
  /\ row # NoRow
  /\ row.digest = stableDigest(req[w])
  /\ row.response = ToJson(Response(w))
  /\ row.expiresAt > now

\* errors that come from the registrar or the database, not from the request
OutsideErrors == {"ProviderError", "InternalError", "PremiumNotAllowed"}

\* C4: with a committed, unexpired Idem row for its key and digest, a POST
\* /buy answers 200 with the stored body and causes no register, no Purchase
\* row and no spend.add.
C4_ReplayReturnsStored ==
  \A w, r \in Reqs :
    (Done(r) /\ StoredBy(w, r) /\ stableDigest(req[w]) = stableDigest(req[r])
       /\ result[r].error \notin OutsideErrors) =>
      /\ result[r].status = 200
      /\ result[r].body = FromJson(idemRows[BuyKey(req[r])].response)
      /\ ~hist[r].register
      /\ PurchasesOf(r) = {}

PreCheckErrors == {"SpendCapExceeded", "ProviderError", "PremiumNotAllowed",
                   "InternalError", "DailyCapExceeded"}

C5_NoSideEffect ==
  \A w, r \in Reqs :
    (Done(r) /\ StoredBy(w, r) /\ stableDigest(req[w]) # stableDigest(req[r])) =>
      /\ result[r].status # 200
      /\ result[r].error \in PreCheckErrors \cup {"IdempotencyMismatch"}
      /\ result[r].error = "IdempotencyMismatch" => result[r].status = 409
      /\ ~hist[r].register
      /\ ~hist[r].dns
      /\ ~hist[r].fail
      /\ ~GotOrder(r)
      /\ PurchasesOf(r) = {}

C5_LookupStep ==
  \A w, r \in Reqs :
    (pc[r] = "beginFind" /\ pc'[r] # pc[r] /\ StoredBy(w, r)
       /\ idemRows[BuyKey(req[r])].expiresAt > loc[r].beginNow
       /\ stableDigest(req[w]) # stableDigest(req[r])) =>
      /\ pc'[r] = "done"
      /\ result'[r] \in {Err(409, "IdempotencyMismatch"), Err(500, "InternalError")}
      /\ UNCHANGED <<idemRows, domainTbl, purchases, dailySpend, audit, locks, buys>>

Requoted(r) == loc[r].server_total # 0

Drifted(r) ==
  /\ Requoted(r)
  /\ Abs(loc[r].server_total - req[r].quoted_total_usd) > DRIFT_TOLERANCE

C6_DriftStopsPurchase ==
  \A r \in Reqs :
    Requoted(r) =>
      IF Drifted(r)
      THEN /\ pc[r] \in {"catchFail", "catchAudit", "done"}
           /\ loc[r].err = Err(409, "PriceDrift")
           /\ ~hist[r].register
           /\ ~GotOrder(r)
           /\ PurchasesOf(r) = {}
           /\ Done(r) => result[r] \in {Err(409, "PriceDrift"), Err(500, "InternalError")}
      ELSE pc[r] = "register" \/ hist[r].register

C6_DriftStep ==
  \A r \in Reqs :
    (Drifted(r) /\ pc'[r] # pc[r]) => UNCHANGED <<domainTbl, purchases, dailySpend>>

C7_FailAndRelease ==
  \A r \in Reqs :
    (Done(r) /\ ~NoThrow(r)) =>
      /\ hist[r].fail
      /\ locks[BuyKey(req[r])] # r
      /\ result[r] \in {loc[r].err, Err(500, "InternalError")}

C7_FailStep ==
  \A r \in Reqs :
    (pc[r] = "catchFail" /\ pc'[r] = "catchAudit") =>
      idemRows'[BuyKey(req[r])] = NoRow

C8_CommitSurvives ==
  [][\A r \in Reqs :
       (loc[r].failedAt = "respond" /\ pc'[r] # pc[r]) =>
         idemRows'[BuyKey(req[r])] = idemRows[BuyKey(req[r])]]_vars

\* C9: if spend.add fails after register succeeded, the client still gets
\* the success response and the Idem row of the key is committed.
C9_SpendFailureStillCommits ==
  \A r \in Reqs :
    (Done(r) /\ loc[r].failedAt \in {"spendAdd", "spendAddRead"}) =>
      /\ result[r].status = 200
      /\ idemRows[BuyKey(req[r])] # NoRow

\* C10: a POST /buy without a user (accountKey "anon") is rejected without
\* any call of register, setNameservers or applyRecords made for it.
C10_AnonNeverRegisters ==
  \A r \in Reqs :
    (Started(r) /\ getUser(req[r]) = "") => (~hist[r].register /\ ~hist[r].dns)

\* ------------------------------------------------- Idem ledger harness
\* test/idempotency.spec.ts:51-112: callers of begin, commit and fail on one
\* key, in any interleaving and with the clock running.
TestKey == <<"buy", "a.com", "uuid1">>

TestDigests == {<<"a.com", q, TRUE, 1>> : q \in {1200, 1301}}

TestResponses == {[order_id |-> o, charged_total_usd |-> 1250, domainId |-> "a.com"] :
                    o \in 1..2}

IdemUnchanged ==
  /\ UNCHANGED <<locks, waitQ, buys, domainTbl, purchases, dailySpend, audit>>
  /\ UNCHANGED buyVars
  /\ UNCHANGED <<mpc, mkey, mcur, counter, spc, sloc>>
  /\ UNCHANGED <<rateVars, driverVars, pureVars, statusVars, upstreamVars>>

\* idem.ts:53-54 -> repo.ts:68: begin is called, idemBegin takes `now`
IBeginCall(c) ==
  /\ ipc[c] = "idle"
  /\ ipc' = [ipc EXCEPT ![c] = "beginFind"]
  /\ iloc' = [iloc EXCEPT ![c] = now]
  /\ iret' = [iret EXCEPT ![c] = NoRet]
  /\ UNCHANGED <<now, idemRows>>
  /\ IdemUnchanged

\* repo.ts:70-86 after findUnique, idem.ts:56-68
IBeginFind(c) ==
  LET existing == idemRows[TestKey] IN
  /\ ipc[c] = "beginFind"
  /\ IF existing # NoRow /\ existing.expiresAt > iloc[c]
     THEN /\ ipc' = [ipc EXCEPT ![c] = "idle"]
          /\ iret' = [iret EXCEPT ![c] = [kind |-> "hit",
                                          response |-> FromJson(existing.response),
                                          digest |-> existing.digest]]
          /\ iloc' = [iloc EXCEPT ![c] = 0]
     ELSE IF existing # NoRow
     THEN /\ ipc' = [ipc EXCEPT ![c] = "beginDelete"]
          /\ UNCHANGED <<iloc, iret>>
     ELSE /\ ipc' = [ipc EXCEPT ![c] = "idle"]
          /\ iret' = [iret EXCEPT ![c] = BeginOk]
          /\ iloc' = [iloc EXCEPT ![c] = 0]
  /\ UNCHANGED <<now, idemRows>>
  /\ IdemUnchanged

\* repo.ts:81-86: prisma.idem.delete of the key; it throws when no row of
\* the key is left
IBeginDelete(c) ==
  /\ ipc[c] = "beginDelete"
  /\ ipc' = [ipc EXCEPT ![c] = "idle"]
  /\ IF idemRows[TestKey] = NoRow
     THEN /\ iret' = [iret EXCEPT ![c] = BeginThrew]
          /\ UNCHANGED idemRows
     ELSE /\ idemRows' = [idemRows EXCEPT ![TestKey] = NoRow]
          /\ iret' = [iret EXCEPT ![c] = BeginOk]
  /\ UNCHANGED <<now, iloc>>
  /\ IdemUnchanged

\* idem.ts:74-81 -> repo.ts:98-123
ICommit(c) ==
  /\ ipc[c] = "idle"
  /\ \E d \in TestDigests, resp \in TestResponses :
       idemRows' = idemCommit(TestKey, d, resp, now + IDEM_TTL)
  /\ UNCHANGED <<now, ipc, iloc, iret>>
  /\ IdemUnchanged

\* idem.ts:86-89 -> repo.ts:130-134
IFail(c) ==
  /\ ipc[c] = "idle"
  /\ idemRows' = idemFail(TestKey)
  /\ UNCHANGED <<now, ipc, iloc, iret>>
  /\ IdemUnchanged

NextIdem ==
  \/ Tick
  \/ \E c \in IdemCallers :
       \/ IBeginCall(c)
       \/ IBeginFind(c)
       \/ IBeginDelete(c)
       \/ ICommit(c)
       \/ IFail(c)

SpecIdem == Init /\ [][NextIdem]_vars

\* ---------------------------------------------------- rate limiter
\* middleware/rateLimit.ts: one key's bucket under a series of consume
\* calls, the clock moving between them, and the periodic cleanup.
Jumps == {0, 1, 29999, 30000, 59999, 60000, 600001}

RateUnchanged ==
  /\ UNCHANGED <<now, locks, waitQ, buys>>
  /\ UNCHANGED dbVars
  /\ UNCHANGED buyVars
  /\ UNCHANGED <<mpc, mkey, mcur, counter, spc, sloc, ipc, iloc, iret>>
  /\ UNCHANGED <<driverVars, pureVars, statusVars, upstreamVars>>

RECURSIVE SelectInWindow(_, _)
\* rateLimit.ts:70-72 filter
SelectInWindow(ts, t) ==
  IF ts = <<>> THEN <<>>
  ELSE IF t - Head(ts) < WINDOW_MS
       THEN <<Head(ts)>> \o SelectInWindow(Tail(ts), t)
       ELSE SelectInWindow(Tail(ts), t)

\* rateLimit.ts:75
OverLimitStrict(n) == n > RATE_LIMIT_RPM

OverLimit(n) == n >= RATE_LIMIT_RPM

\* Math.ceil(ms / 1000) for ms >= 0
CeilSec(ms) == (ms + MS_PER_SEC - 1) \div MS_PER_SEC

Min(a, b) == IF a < b THEN a ELSE b

\* rateLimit.ts:89 the refill is applied only when a whole token is due
ShouldRefillAlways(tokensToAdd) == TRUE

ShouldRefill(tokensToAdd) == tokensToAdd > 0

\* rateLimit.ts:52-112 consume on the bucket b of one key at time t: the
\* bucket it leaves in the map and the result it returns
consume(b, t) ==
  IF ~b.exists
  THEN [bucket |-> [exists |-> TRUE, tokens |-> RATE_LIMIT_BURST - 1,
                    lastRefill |-> t, requestTimestamps |-> <<t>>],
        ret |-> [allowed |-> TRUE, retryAfterSec |-> 0]]
  ELSE LET ts == SelectInWindow(b.requestTimestamps, t)
           tokensToAdd == ((t - b.lastRefill) * RATE_LIMIT_RPM) \div WINDOW_MS
           refilled == IF ShouldRefill(tokensToAdd)
                       THEN [b EXCEPT
                               !.requestTimestamps = ts,
                               !.tokens = Min(b.tokens + tokensToAdd,
                                              RATE_LIMIT_BURST),
                               !.lastRefill = t]
                       ELSE [b EXCEPT !.requestTimestamps = ts]
       IN
       IF OverLimit(Len(ts))
       THEN [bucket |-> [b EXCEPT !.requestTimestamps = ts],
             ret |-> [allowed |-> FALSE,
                      retryAfterSec |-> CeilSec(WINDOW_MS - (t - ts[1]))]]
       ELSE IF refilled.tokens <= 0
       \* Math.ceil((60000 / rpm) * 1000) / 1000, exact when rpm
       \* divides 60000
       THEN [bucket |-> refilled,
             ret |-> [allowed |-> FALSE,
                      retryAfterSec |-> WINDOW_MS \div RATE_LIMIT_RPM]]
       ELSE [bucket |-> [refilled EXCEPT !.tokens = @ - 1,
                                         !.requestTimestamps = Append(@, t)],
             ret |-> [allowed |-> TRUE, retryAfterSec |-> 0]]

\* consume(key) for the key under study; rallowed keeps the times of the
\* calls answered allowed = true
Consume ==
  /\ rcalls < NumConsumes
  /\ rcalls' = rcalls + 1
  /\ rticked' = FALSE
  /\ rnow' = rnow
  /\ bucket' = consume(bucket, rnow).bucket
  /\ rret' = consume(bucket, rnow).ret
  /\ rallowed' = IF consume(bucket, rnow).ret.allowed
                 THEN Append(rallowed, rnow) ELSE rallowed
  /\ UNCHANGED <<obucket, ocalls>>
  /\ RateUnchanged

\* consume(otherKey): a request of another account or address
ConsumeOther ==
  /\ ocalls < NumOtherConsumes
  /\ ocalls' = ocalls + 1
  /\ obucket' = consume(obucket, rnow).bucket
  /\ UNCHANGED <<rnow, bucket, rret, rcalls, rticked, rallowed>>
  /\ RateUnchanged

\* rateLimit.ts:123 a bucket idle for more than ten minutes
ExpiredAlways(b, t) == TRUE

Expired(b, t) == t - b.lastRefill > BUCKET_EXPIRY_MS

\* rateLimit.ts:122-127 the sweep deletes the expired buckets of the map
Sweep(b, t) == IF b.exists /\ Expired(b, t) THEN NoBucket ELSE b

\* rateLimit.ts:117-132 cleanup, run by the interval timer
Cleanup ==
  /\ \/ bucket.exists /\ Expired(bucket, rnow)
     \/ obucket.exists /\ Expired(obucket, rnow)
  /\ bucket' = Sweep(bucket, rnow)
  /\ obucket' = Sweep(obucket, rnow)
  /\ UNCHANGED <<rnow, rret, rcalls, rticked, rallowed, ocalls>>
  /\ RateUnchanged

\* Date.now() between two calls
RTick ==
  /\ ~rticked
  /\ rcalls < NumConsumes
  /\ \E j \in Jumps : rnow' = rnow + j
  /\ rticked' = TRUE
  /\ UNCHANGED <<bucket, rret, rcalls, rallowed, obucket, ocalls>>
  /\ RateUnchanged

NextRate == Consume \/ ConsumeOther \/ Cleanup \/ RTick

SpecRate == Init /\ [][NextRate]_vars

\* ------------------------------------------------ spend ledger claims
Added(b) == spc[b] = "done" /\ sloc[b].res = "added"

\* the requests whose spend.add completed and was booked on day d
AddedOn(d) == {b \in Buyers : Added(b) /\ sloc[b].today = d}

RECURSIVE SumCharged(_)
SumCharged(B) ==
  IF B = {} THEN 0
  ELSE LET b == CHOOSE x \in B : TRUE IN sloc[b].charged + SumCharged(B \ {b})

RECURSIVE SumTotalUsd(_)
SumTotalUsd(P) ==
  IF P = {} THEN 0
  ELSE LET p == CHOOSE x \in P : TRUE IN p.totalUsd + SumTotalUsd(P \ {p})

\* C11: for every account and UTC day, whatever the interleaving of the
\* account's concurrent POST /buy requests, the DailySpend total stays at or
\* below MAX_DAILY_USD + MAX_PER_TXN_USD.
C11_OverspendWithinOneTxn ==
  \A d \in Days :
    dailySpendGet(BuyerAcct, d) <= MAX_DAILY_USD + MAX_PER_TXN_USD

C13_LedgerMatchesPurchases ==
  \A d \in Days :
    LET ofDay == {p \in purchases : p.userId = BuyerAcct /\ p.createdDay = d} IN
    /\ dailySpendGet(BuyerAcct, d) =
         SumTotalUsd({p \in ofDay : Added(p.orderId)})
    /\ dailySpendGet(BuyerAcct, d) <= SumTotalUsd(ofDay)

\* -------------------------------------------------- daily cap claims
C14_CapStep ==
  \A r \in Reqs :
    (pc[r] = "getTotal" /\ pc'[r] # pc[r]
       /\ result'[r] # Err(500, "InternalError")) =>
      LET todaySpent == dailySpendGet(req[r].acct, todayISO(now)) IN
      IF todaySpent + req[r].quoted_total_usd > MAX_DAILY_USD
      THEN /\ pc'[r] = "done"
           /\ result'[r] = [status |-> 400, error |-> "DailyCapExceeded",
                            body |-> <<Max(0, MAX_DAILY_USD - todaySpent)>>]
           /\ UNCHANGED <<idemRows, domainTbl, purchases, dailySpend, audit,
                          locks, waitQ, buys>>
      ELSE /\ pc'[r] = "beginFind"
           /\ result'[r] = NoResult

C14_CapRejection ==
  \A r \in Reqs :
    (Done(r) /\ result[r].error = "DailyCapExceeded") =>
      /\ result[r].status = 400
      /\ NoThrow(r)
      /\ ~hist[r].register
      /\ ~hist[r].dns
      /\ ~hist[r].fail
      /\ ~GotOrder(r)
      /\ PurchasesOf(r) = {}
      /\ locks[BuyKey(req[r])] # r

CommittedBy(k) == FromJson(idemRows[k].response).order_id

\* C15: a committed Idem row that has not expired is neither deleted nor
\* overwritten with another digest or response by a step of any other
\* request, concurrent or later.
C15_CommittedRowStable ==
  [][\A k \in BuyKeys, r \in Reqs :
       (idemRows[k] # NoRow /\ idemRows[k].expiresAt > now
          /\ CommittedBy(k) # r /\ pc'[r] # pc[r]) =>
         /\ idemRows'[k] # NoRow
         /\ idemRows'[k].digest = idemRows[k].digest
         /\ idemRows'[k].response = idemRows[k].response]_vars

\* C16: begin(key) answers {ok:false, existing} with the committed response
\* and digest while the row has not expired and leaves the row in place;
\* it deletes a row only when that row has expired, answering {ok:true};
\* with no row it answers {ok:true} and writes nothing.
C16_BeginContract ==
  [][\A c \in IdemCallers :
       LET row == idemRows[TestKey] IN
       /\ (ipc[c] = "beginFind" /\ ipc'[c] # ipc[c]) =>
            /\ idemRows' = idemRows
            /\ (row # NoRow /\ row.expiresAt > iloc[c]) =>
                 iret'[c] = [kind |-> "hit", response |-> FromJson(row.response),
                             digest |-> row.digest]
            /\ row = NoRow => iret'[c] = BeginOk
       /\ (ipc[c] = "beginDelete" /\ ipc'[c] # ipc[c] /\ row # NoRow) =>
            /\ row.expiresAt <= now
            /\ iret'[c] = BeginOk]_vars

\* ------------------------------------------------------ mutex claims
Holds(c, k) == mpc[c] = "cs" /\ mkey[c] = k

Held(k) == \E c \in Callers : Holds(c, k)

C17_FreeKeyHasNoLock ==
  \A k \in MutexKeys :
    ~Held(k) =>
      /\ AcquireFree(k)
      /\ \A c \in Callers : ~(mpc[c] = "wait" /\ mkey[c] = k)

C17_AcquireStep ==
  \A c \in Callers, k \in MutexKeys :
    (mpc[c] = "start" /\ mpc'[c] # "start" /\ mkey'[c] = k /\ ~Held(k)) =>
      /\ mpc'[c] = "cs"
      /\ locks'[k] = c
      /\ \A j \in MutexKeys \ {k} : locks'[j] = locks[j]

\* C17: acquire(k1) returns without waiting whenever no caller holds k1,
\* whatever callers hold or wait on another key, and leaves the other keys'
\* locks as they are.
C17_KeysIndependent == []C17_FreeKeyHasNoLock /\ [][C17_AcquireStep]_vars

\* key2 is held while key1 is held and waited on
C17_Witness ==
  \E c1, c2, c3 \in Callers :
    /\ Holds(c1, <<"key1">>)
    /\ mpc[c2] = "wait" /\ mkey[c2] = <<"key1">>
    /\ Holds(c3, <<"key2">>)
    /\ locks[<<"key2">>] = c3

\* the awaits of the try block and of the catch (domains.ts:245-409)
GuardedSteps == {"requote", "register", "dns", "domainUpsert", "purchaseCreate",
                 "auditSuccess", "spendAdd", "spendAddRead", "idemCommit",
                 "catchFail", "catchAudit"}

InGuarded(r) == pc[r] \in GuardedSteps

C18_NoLockLeftBehind ==
  \A k \in BuyKeys :
    LET inside == {r \in Reqs : InGuarded(r) /\ BuyKey(req[r]) = k} IN
    /\ locks[k] # NoLock => locks[k] \in inside
    /\ \A r \in Reqs :
         (pc[r] = "mutexWait" /\ BuyKey(req[r]) = k) => inside # {}
    /\ \A r \in Reqs :
         (Done(r) /\ BuyKey(req[r]) = k /\ inside = {}) => AcquireFree(k)

C18_ExitStep ==
  \A r \in Reqs :
    LET k == BuyKey(req[r]) IN
    (InGuarded(r) /\ pc'[r] = "done") =>
      /\ locks'[k] # r
      /\ \A x \in Reqs :
           (pc[x] = "mutexWait" /\ BuyKey(req[x]) = k) => pc'[x] = "requote"
      /\ (\A x \in Reqs : ~(pc[x] = "mutexWait" /\ BuyKey(req[x]) = k))
           => AcquireFree(k)'

\* C18: a POST /buy that acquired the mutex of its key releases it on every
\* exit (success, a thrown error, a failure inside the catch): when it ends
\* its promise is no longer in the lock map, the requests waiting for it
\* resume, and a key with no request left inside has no lock, so the next
\* acquire returns without waiting.
C18_AlwaysReleased == []C18_NoLockLeftBehind /\ [][C18_ExitStep]_vars

\* a request ended by a failure inside its catch block, and a retry under the
\* same key holds the mutex
C18_Witness ==
  \E r1, r2 \in Reqs :
    /\ Retry(r1, r2)
    /\ Done(r1) /\ ~NoThrow(r1)
    /\ result[r1] # loc[r1].err
    /\ InGuarded(r2)
    /\ locks[BuyKey(req[r2])] = r2

\* ------------------------------------------------ rate limiter claims
\* the recorded timestamps t of the key with now - t < 60 s
RecentCount ==
  Cardinality({i \in 1..Len(bucket.requestTimestamps) :
                 rnow - bucket.requestTimestamps[i] < WINDOW_MS})

\* C19: when at least requestsPerMinute recorded timestamps of the key are
\* less than 60 s old, the next consume(key) returns allowed = false with
\* retryAfterSec <= 60, and records nothing.
C19_WindowRejects ==
  [][(rcalls' = rcalls + 1 /\ RecentCount >= RATE_LIMIT_RPM) =>
       /\ rret'.allowed = FALSE
       /\ rret'.retryAfterSec >= 1
       /\ rret'.retryAfterSec * MS_PER_SEC <= WINDOW_MS
       /\ Len(bucket'.requestTimestamps) = RecentCount]_vars

\* a call refused by the window check (the window is full) some time after
\* the oldest recorded call, told to wait until that call leaves the window
C19_Witness ==
  /\ rret.allowed = FALSE
  /\ rticked = FALSE
  /\ Len(bucket.requestTimestamps) = RATE_LIMIT_RPM
  /\ rnow > bucket.requestTimestamps[1]
  /\ rret.retryAfterSec * MS_PER_SEC = WINDOW_MS - (rnow - bucket.requestTimestamps[1])

\* ---------------------------------------------------- registrar driver
\* providers/porkbun.ts: the JSON driver.  Each action is one driver call
\* with the upstream's answers drawn as inputs; `fetched` collects the
\* endpoints callPorkbun was asked for.
ENDPOINTS == [AVAILABILITY |-> "/domain/check",
              PRICING |-> "/pricing/get",
              REGISTER |-> "/domain/create",
              UPDATE_NS |-> "/domain/updateNs",
              DNS_CREATE |-> "/dns/create"]

\* process.env.DRY_RUN
DryRunEnv == {"unset", "true", "false", "0", "FALSE"}

\* builder: dryRun: process.env.DRY_RUN !== 'false'
DryRunFromEnv(v) == v # "false"

\* nameserver counts handed to setNameservers
NsCounts == {1, 2, 14}

\* numbers of records handed to applyRecords
RecordCounts == 0..MaxRecords

\* answers of callPorkbun: a parsed response, or a PorkbunError after the
\* retries
Upstream == {"ok", "error"}

\* the `if (this.dryRun)` guard of register, setNameservers, applyRecords
dryRunGuardOff(p) == FALSE

dryRunGuard(p) == p.dryRun

Returned(op, ok, id) ==
  [op |-> op, outcome |-> "returned", success |-> ok, order_id |-> id,
   entries |-> <<>>]

\* checkAvailability returns one entry per domain
ReturnedEntries(op, entries) ==
  [op |-> op, outcome |-> "returned", success |-> TRUE, order_id |-> <<>>,
   entries |-> entries]

Threw(op) ==
  [op |-> op, outcome |-> "threw", success |-> FALSE, order_id |-> <<>>,
   entries |-> <<>>]

DriverUnchanged ==
  /\ UNCHANGED <<now, locks, waitQ, buys>>
  /\ UNCHANGED dbVars
  /\ UNCHANGED buyVars
  /\ UNCHANGED <<mpc, mkey, mcur, counter, spc, sloc, ipc, iloc, iret>>
  /\ UNCHANGED <<rateVars, pureVars, statusVars, upstreamVars>>

\* createProvider and the constructor
CreateProvider ==
  /\ ~provider.created
  /\ \E v \in DryRunEnv :
       provider' = [created |-> TRUE, dryRun |-> DryRunFromEnv(v)]
  /\ UNCHANGED <<pricingCache, fetched, dret, dcalls, draised>>
  /\ DriverUnchanged

\* register: re-quote, availability check, then the dry-run guard or the
\* real registration
PorkbunRegister ==
  /\ provider.created
  /\ dcalls < MaxDriverCalls
  /\ dcalls' = dcalls + 1
  /\ provider' = provider
  /\ \E pricing \in Upstream, tldPriced \in BOOLEAN,
        avail \in {"yes", "no", "error"}, create \in Upstream,
        uuid \in 1..2 :
       LET fetchPricing == ~pricingCache
           afterQuote == IF fetchPricing THEN fetched \cup {ENDPOINTS.PRICING}
                         ELSE fetched
       IN
       IF fetchPricing /\ pricing = "error"
       THEN \* getPricing throws out of quote, out of register
            /\ fetched' = afterQuote
            /\ pricingCache' = pricingCache
            /\ dret' = Threw("register")
            /\ draised' = TRUE
       ELSE IF ~tldPriced
       THEN \* quote throws TLD_NOT_SUPPORTED
            /\ fetched' = afterQuote
            /\ pricingCache' = TRUE
            /\ dret' = Threw("register")
            /\ draised' = TRUE
       ELSE IF avail # "yes"
       THEN /\ fetched' = afterQuote \cup {ENDPOINTS.AVAILABILITY}
            /\ pricingCache' = TRUE
            /\ dret' = Returned("register", FALSE, <<"">>)
            /\ draised' = (avail = "error")
       ELSE IF dryRunGuard(provider)
       THEN /\ fetched' = afterQuote \cup {ENDPOINTS.AVAILABILITY}
            /\ pricingCache' = TRUE
            /\ dret' = Returned("register", TRUE, <<"PB-DRYRUN-", uuid>>)
            /\ draised' = FALSE
       ELSE /\ fetched' = afterQuote \cup {ENDPOINTS.AVAILABILITY,
                                           ENDPOINTS.REGISTER}
            /\ pricingCache' = TRUE
            /\ dret' = IF create = "ok"
                       THEN Returned("register", TRUE, <<"order", uuid>>)
                       ELSE Returned("register", FALSE, <<"">>)
            /\ draised' = (create = "error")
  /\ DriverUnchanged

\* setNameservers
PorkbunSetNameservers ==
  /\ provider.created
  /\ dcalls < MaxDriverCalls
  /\ dcalls' = dcalls + 1
  /\ UNCHANGED <<provider, pricingCache>>
  /\ \E count \in NsCounts, updateNs \in Upstream :
       IF dryRunGuard(provider)
       THEN /\ fetched' = fetched
            /\ dret' = Returned("setNameservers", TRUE, <<>>)
            /\ draised' = FALSE
       ELSE IF count < MIN_NAMESERVERS \/ count > MAX_NAMESERVERS
       THEN /\ fetched' = fetched
            /\ dret' = Threw("setNameservers")
            /\ draised' = TRUE
       ELSE /\ fetched' = fetched \cup {ENDPOINTS.UPDATE_NS}
            /\ dret' = IF updateNs = "ok"
                       THEN Returned("setNameservers", TRUE, <<>>)
                       ELSE Threw("setNameservers")
            /\ draised' = (updateNs = "error")
  /\ DriverUnchanged

\* applyRecords: one /dns/create per record, DNS_APPLY_PARTIAL_FAILURE when
\* any of them was rejected
PorkbunApplyRecords ==
  /\ provider.created
  /\ dcalls < MaxDriverCalls
  /\ dcalls' = dcalls + 1
  /\ UNCHANGED <<provider, pricingCache>>
  /\ \E n \in RecordCounts :
       \E failures \in 0..n :
         IF dryRunGuard(provider)
         THEN /\ fetched' = fetched
              /\ dret' = Returned("applyRecords", TRUE, <<>>)
              /\ draised' = FALSE
         ELSE /\ fetched' = IF n > 0 THEN fetched \cup {ENDPOINTS.DNS_CREATE}
                            ELSE fetched
              /\ dret' = IF failures > 0 THEN Threw("applyRecords")
                         ELSE Returned("applyRecords", TRUE, <<>>)
              /\ draised' = (failures > 0)
  /\ DriverUnchanged

\* what /domain/check answers for one domain, or the error of the call
AvailAnswers == {"yes", "no", "error"}

\* porkbun.ts:356-386: the entry built for one domain; prices in cents, the
\* TLD's price list entry is priced (0 when the TLD is not in the list)
AvailabilityEntry(answer, priced) ==
  IF answer = "error"
  THEN [available |-> FALSE, price_usd |-> 0]
  ELSE [available |-> (answer = "yes"),
        price_usd |-> (IF priced # 0 THEN priced ELSE DEFAULT_PRICE) + ICANN_FEE]

\* porkbun.ts:341-391 checkAvailability
PorkbunCheckAvailability ==
  /\ provider.created
  /\ dcalls < MaxDriverCalls
  /\ dcalls' = dcalls + 1
  /\ provider' = provider
  /\ \E pricing \in Upstream, priced \in {0, 900} :
       \E answers \in SeqsUpTo(AvailAnswers, MaxRecords) :
         IF answers = <<>>
         THEN /\ UNCHANGED <<fetched, pricingCache>>
              /\ dret' = ReturnedEntries("checkAvailability", <<>>)
              /\ draised' = FALSE
         ELSE IF ~pricingCache /\ pricing = "error"
         THEN /\ fetched' = fetched \cup {ENDPOINTS.PRICING}
              /\ pricingCache' = pricingCache
              /\ dret' = Threw("checkAvailability")
              /\ draised' = TRUE
         ELSE /\ fetched' = fetched \cup {ENDPOINTS.AVAILABILITY}
                              \cup (IF pricingCache THEN {} ELSE {ENDPOINTS.PRICING})
              /\ pricingCache' = TRUE
              /\ dret' = ReturnedEntries("checkAvailability",
                           [i \in 1..Len(answers) |->
                              AvailabilityEntry(answers[i], priced)])
              /\ draised' = (\E i \in 1..Len(answers) : answers[i] = "error")
  /\ DriverUnchanged

\* porkbun.ts:396-425 quote
PorkbunQuote ==
  /\ provider.created
  /\ dcalls < MaxDriverCalls
  /\ dcalls' = dcalls + 1
  /\ provider' = provider
  /\ \E pricing \in Upstream, tldPriced \in BOOLEAN :
       /\ fetched' = IF pricingCache THEN fetched
                     ELSE fetched \cup {ENDPOINTS.PRICING}
       /\ IF ~pricingCache /\ pricing = "error"
          THEN /\ pricingCache' = pricingCache
               /\ dret' = Threw("quote")
               /\ draised' = TRUE
          ELSE IF ~tldPriced
          THEN /\ pricingCache' = TRUE
               /\ dret' = Threw("quote")
               /\ draised' = TRUE
          ELSE /\ pricingCache' = TRUE
               /\ dret' = Returned("quote", TRUE, <<>>)
               /\ draised' = FALSE
  /\ DriverUnchanged

\* NamecheapProvider.checkAvailability for one domain: domains.check, then
\* getPricing of its TLD with `.catch(() => 12.0)`
NamecheapCheckAvailability ==
  /\ provider.created
  /\ dcalls < MaxDriverCalls
  /\ dcalls' = dcalls + 1
  /\ UNCHANGED <<provider, pricingCache>>
  /\ \E check \in Upstream, available \in BOOLEAN, pricing \in Upstream,
        priced \in {900} :
       IF check = "error"
       THEN /\ fetched' = fetched \cup {"namecheap.domains.check"}
            /\ dret' = Threw("namecheap.checkAvailability")
            /\ draised' = TRUE
       ELSE /\ fetched' = fetched \cup {"namecheap.domains.check",
                                        "namecheap.users.getPricing"}
            /\ dret' = ReturnedEntries("namecheap.checkAvailability",
                         <<[available |-> available,
                            price_usd |-> (IF pricing = "ok" THEN priced
                                           ELSE DEFAULT_PRICE) + ICANN_FEE]>>)
            /\ draised' = (pricing = "error")
  /\ DriverUnchanged

\* pricingCacheTtl runs out between two calls
PricingExpires ==
  /\ pricingCache
  /\ dcalls < MaxDriverCalls
  /\ pricingCache' = FALSE
  /\ UNCHANGED <<provider, fetched, dret, dcalls, draised>>
  /\ DriverUnchanged

NextDriver ==
  CreateProvider \/ PorkbunRegister \/ PorkbunSetNameservers
    \/ PorkbunApplyRecords \/ PorkbunCheckAvailability \/ PorkbunQuote
    \/ NamecheapCheckAvailability \/ PricingExpires

SpecDriver == Init /\ [][NextDriver]_vars

\* ---------------------------------------------------- dry-run claims
Mutating == {ENDPOINTS.REGISTER, ENDPOINTS.UPDATE_NS, ENDPOINTS.DNS_CREATE}

DryRunOn == provider.created /\ provider.dryRun

\* the last driver call returned a synthesized success
Synthesized ==
  /\ dret.outcome = "returned"
  /\ dret.success
  /\ dret.op = "register" => Head(dret.order_id) = "PB-DRYRUN-"

\* C20 as stated: with dry-run enabled no request goes to /domain/create,
\* /domain/updateNs or /dns/create, and every register, setNameservers and
\* applyRecords call yields a synthesized success.
C20_EveryCallSynthesized ==
  DryRunOn =>
    /\ fetched \cap Mutating = {}
    /\ dcalls > 0 => Synthesized

C20_NoMutatingRequest == DryRunOn => fetched \cap Mutating = {}

C20_CallStep ==
  (DryRunOn /\ dcalls' = dcalls + 1) =>
    /\ fetched' \cap Mutating = {}
    /\ dret'.op \in {"setNameservers", "applyRecords"} =>
         /\ Synthesized'
         /\ fetched' = fetched
    /\ dret'.op = "register" =>
         \/ Synthesized' /\ ENDPOINTS.AVAILABILITY \in fetched'
         \/ dret' = Returned("register", FALSE, <<"">>)
              /\ ENDPOINTS.AVAILABILITY \in fetched'
         \/ dret' = Threw("register")
              /\ fetched' \subseteq fetched \cup {ENDPOINTS.PRICING}

\* C20 (amended): with dry-run enabled no request ever goes to a mutating
\* endpoint; setNameservers and applyRecords return normally and send
\* nothing; register returns a success whose order id starts with
\* PB-DRYRUN- after an availability check, or reports the domain as not
\* available (success false, empty order id), or throws the error of its
\* re-quote before any availability check.
C20_DryRunNeverMutates == []C20_NoMutatingRequest /\ [][C20_CallStep]_vars

\* a dry-run driver whose last call of several simulated a registration,
\* having fetched the price list
C20_Witness ==
  /\ DryRunOn
  /\ dcalls = MaxDriverCalls
  /\ Synthesized
  /\ dret.op = "register"
  /\ ENDPOINTS.PRICING \in fetched

\* ------------------------------------------------------- label filter
\* lib/homograph.ts.  A string is a sequence of code points.
CP == [a |-> 97, one |-> 49, hyphen |-> 45, A |-> 65, underscore |-> 95,
       space |-> 32, alpha |-> 945, cyrA |-> 1072, zwsp |-> 8203,
       thaiKo |-> 3585, kelvin |-> 8490]

\* homograph.ts:9-15
INVISIBLE_CODEPOINTS == {8203, 8204, 8205, 8288, 65279}

\* the scripts hasMixedScripts looks for (homograph.ts:73-82)
Scripts == {"latin", "cyrillic", "greek", "arabic", "hebrew", "han",
            "hiragana", "katakana"}

\* \p{Script=...} of a code point, for the blocks the inputs are drawn from
ScriptOf(c) ==
  IF (c >= 65 /\ c <= 90) \/ (c >= 97 /\ c <= 122) \/ c = 8490 THEN "latin"
  ELSE IF c >= 880 /\ c <= 1023 THEN "greek"
  ELSE IF c >= 1024 /\ c <= 1279 THEN "cyrillic"
  ELSE IF c >= 3585 /\ c <= 3642 THEN "thai"
  ELSE "common"

\* String.prototype.toLowerCase, per code point
ToLowerCP(c) ==
  IF c >= 65 /\ c <= 90 THEN c + 32
  ELSE IF c >= 913 /\ c <= 939 THEN c + 32
  ELSE IF c >= 1040 /\ c <= 1071 THEN c + 32
  ELSE IF c = 8490 THEN 107
  ELSE c

toLowerCase(s) == [i \in 1..Len(s) |-> ToLowerCP(s[i])]

\* WhiteSpace and LineTerminator code points removed by String.prototype.trim
IsWhiteSpace(c) == c \in {9, 10, 11, 12, 13, 32, 160, 8232, 8233, 65279}

RECURSIVE trimStart(_)
trimStart(s) ==
  IF s # <<>> /\ IsWhiteSpace(Head(s)) THEN trimStart(Tail(s)) ELSE s

RECURSIVE trimEnd(_)
trimEnd(s) ==
  IF s # <<>> /\ IsWhiteSpace(s[Len(s)])
  THEN trimEnd(SubSeq(s, 1, Len(s) - 1)) ELSE s

trim(s) == trimEnd(trimStart(s))

IsLowerAlnum(c) == (c >= 97 /\ c <= 122) \/ (c >= 48 /\ c <= 57)

IsDigit(c) == c >= 48 /\ c <= 57

\* homograph.ts:24-47
isAsciiLdhAllowNumeric(label) ==
  /\ Len(label) >= 1 /\ Len(label) <= MAX_LABEL_LENGTH
  /\ label[1] # CP.hyphen /\ label[Len(label)] # CP.hyphen
  /\ \A i \in 1..Len(label) : IsLowerAlnum(label[i]) \/ label[i] = CP.hyphen

isAsciiLdh(label) ==
  /\ Len(label) >= 1 /\ Len(label) <= MAX_LABEL_LENGTH
  /\ label[1] # CP.hyphen /\ label[Len(label)] # CP.hyphen
  /\ \A i \in 1..Len(label) : IsLowerAlnum(label[i]) \/ label[i] = CP.hyphen
  /\ \E i \in 1..Len(label) : ~IsDigit(label[i])

\* homograph.ts:52-60
hasInvisibleChars(s) == \E i \in 1..Len(s) : s[i] \in INVISIBLE_CODEPOINTS

\* homograph.ts:66-95
hasMixedScripts(s) ==
  IF \A i \in 1..Len(s) : s[i] <= 127 THEN FALSE
  ELSE Cardinality({ScriptOf(s[i]) : i \in 1..Len(s)} \cap Scripts) > 1

XN == <<120, 110, 45, 45>>

\* homograph.ts:100-102
isPunycode(s) == Len(s) >= Len(XN) /\ SubSeq(s, 1, Len(XN)) = XN

\* ---- the punycode package (RFC 3492 bootstring), imported at
\* homograph.ts:6
PUNY == [base |-> 36, tMin |-> 1, tMax |-> 26, skew |-> 38, damp |-> 700,
         initialBias |-> 72, initialN |-> 128, delimiter |-> 45]

RECURSIVE adaptLoop(_, _)
adaptLoop(delta, k) ==
  IF delta > ((PUNY.base - PUNY.tMin) * PUNY.tMax) \div 2
  THEN adaptLoop(delta \div (PUNY.base - PUNY.tMin), k + PUNY.base)
  ELSE k + ((PUNY.base - PUNY.tMin + 1) * delta) \div (delta + PUNY.skew)

adapt(delta, numPoints, firstTime) ==
  LET d == IF firstTime THEN delta \div PUNY.damp ELSE delta \div 2
  IN adaptLoop(d + d \div numPoints, 0)

threshold(k, bias) ==
  IF k <= bias THEN PUNY.tMin
  ELSE IF k >= bias + PUNY.tMax THEN PUNY.tMax
  ELSE k - bias

\* 0..25 -> a..z, 26..35 -> 0..9
digitToBasic(d) == IF d < 26 THEN d + 97 ELSE d + 22

\* 0..9 -> 26..35, A..Z and a..z -> 0..25, anything else -> base
basicToDigit(c) ==
  IF c >= 48 /\ c <= 57 THEN 26 + (c - 48)
  ELSE IF c >= 65 /\ c <= 90 THEN c - 65
  ELSE IF c >= 97 /\ c <= 122 THEN c - 97
  ELSE PUNY.base

RECURSIVE encodeVarInt(_, _, _)
encodeVarInt(q, k, bias) ==
  LET t == threshold(k, bias)
  IN IF q < t THEN <<digitToBasic(q)>>
     ELSE <<digitToBasic(t + ((q - t) % (PUNY.base - t)))>>
            \o encodeVarInt((q - t) \div (PUNY.base - t), k + PUNY.base, bias)

RECURSIVE SelectBasic(_)
SelectBasic(s) ==
  IF s = <<>> THEN <<>>
  ELSE IF Head(s) < PUNY.initialN THEN <<Head(s)>> \o SelectBasic(Tail(s))
  ELSE SelectBasic(Tail(s))

SetMin(S) == CHOOSE x \in S : \A y \in S : x <= y

\* the inner `for (const currentValue of input)` of encode, from position i
\* on; st = [delta, bias, h, out]
RECURSIVE encodeScan(_, _, _, _, _)
encodeScan(input, i, n, b, st) ==
  IF i > Len(input) THEN st
  ELSE LET d1 == IF input[i] < n THEN st.delta + 1 ELSE st.delta
       IN IF input[i] = n
          THEN encodeScan(input, i + 1, n, b,
                          [delta |-> 0,
                           bias |-> adapt(d1, st.h + 1, st.h = b),
                           h |-> st.h + 1,
                           out |-> st.out \o encodeVarInt(d1, PUNY.base, st.bias)])
          ELSE encodeScan(input, i + 1, n, b, [st EXCEPT !.delta = d1])

\* the outer `while (handledCPCount < inputLength)` of encode
RECURSIVE encodeMain(_, _, _, _)
encodeMain(input, n, b, st) ==
  IF st.h >= Len(input) THEN st.out
  ELSE LET m == SetMin({input[i] : i \in {j \in 1..Len(input) : input[j] >= n}})
           st1 == [st EXCEPT !.delta = @ + (m - n) * (st.h + 1)]
           st2 == encodeScan(input, 1, m, b, st1)
       IN encodeMain(input, m + 1, b, [st2 EXCEPT !.delta = @ + 1])

\* punycode.encode
punycode_encode(input) ==
  LET basic == SelectBasic(input)
      b == Len(basic)
      out0 == IF b > 0 THEN Append(basic, PUNY.delimiter) ELSE <<>>
  IN encodeMain(input, PUNY.initialN, b,
                [delta |-> 0, bias |-> PUNY.initialBias, h |-> b, out |-> out0])

LastIndexOf(s, c) ==
  IF \E i \in 1..Len(s) : s[i] = c
  THEN CHOOSE i \in 1..Len(s) : s[i] = c /\ \A j \in (i + 1)..Len(s) : s[j] # c
  ELSE 0

DecodeError == [ok |-> FALSE, out |-> <<>>]

\* one generalized variable-length integer, read from position idx on;
\* returns [ok, i, idx]
RECURSIVE decodeVarInt(_, _, _, _, _, _)
decodeVarInt(input, idx, i, w, k, bias) ==
  IF idx > Len(input) THEN [ok |-> FALSE, i |-> 0, idx |-> idx]
  ELSE LET digit == basicToDigit(input[idx])
           t == threshold(k, bias)
       IN IF digit >= PUNY.base THEN [ok |-> FALSE, i |-> 0, idx |-> idx]
          ELSE IF digit < t THEN [ok |-> TRUE, i |-> i + digit * w, idx |-> idx + 1]
          ELSE decodeVarInt(input, idx + 1, i + digit * w, w * (PUNY.base - t),
                            k + PUNY.base, bias)

InsertAt(s, pos, x) == SubSeq(s, 1, pos) \o <<x>> \o SubSeq(s, pos + 1, Len(s))

\* the main loop of decode; st = [n, i, bias, out]
RECURSIVE decodeMain(_, _, _)
decodeMain(input, idx, st) ==
  IF idx > Len(input) THEN [ok |-> TRUE, out |-> st.out]
  ELSE LET v == decodeVarInt(input, idx, st.i, 1, PUNY.base, st.bias)
           outLen == Len(st.out) + 1
       IN IF ~v.ok THEN DecodeError
          ELSE decodeMain(input, v.idx,
                          [n |-> st.n + v.i \div outLen,
                           i |-> (v.i % outLen) + 1,
                           bias |-> adapt(v.i - st.i, outLen, st.i = 0),
                           out |-> InsertAt(st.out, v.i % outLen,
                                            st.n + v.i \div outLen)])

\* punycode.decode: [ok |-> FALSE] stands for the RangeError it throws
punycode_decode(input) ==
  LET d == LastIndexOf(input, PUNY.delimiter)
      basic == IF d > 0 THEN d - 1 ELSE 0
  IN IF \E j \in 1..basic : input[j] >= PUNY.initialN THEN DecodeError
     ELSE decodeMain(input, IF basic > 0 THEN basic + 2 ELSE 1,
                     [n |-> PUNY.initialN, i |-> 0, bias |-> PUNY.initialBias,
                      out |-> SubSeq(input, 1, basic)])

\* homograph.ts:107-119
isValidPunycode(label) ==
  isPunycode(label) /\ punycode_decode(SubSeq(label, Len(XN) + 1, Len(label))).ok

Analysis(label, safe, reasons) ==
  [done |-> TRUE, label |-> label, safe |-> safe, reasons |-> reasons]

\* homograph.ts:141-211
analyzeLabelSafety(label, allowUnicode) ==
  LET normalized == trim(toLowerCase(label))
      decoded == punycode_decode(SubSeq(normalized, Len(XN) + 1, Len(normalized))).out
      reasons == (IF hasInvisibleChars(decoded) THEN <<"HasInvisible">> ELSE <<>>)
                   \o (IF hasMixedScripts(decoded) THEN <<"MixedScripts">> ELSE <<>>)
  IN IF Len(normalized) < 1 \/ Len(normalized) > MAX_LABEL_LENGTH
     THEN Analysis(label, FALSE, <<"InvalidLength">>)
     ELSE IF normalized[1] = CP.hyphen \/ normalized[Len(normalized)] = CP.hyphen
     THEN Analysis(label, FALSE, <<"InvalidHyphenPosition">>)
     ELSE IF isAsciiLdh(normalized)
     THEN Analysis(label, TRUE, <<>>)
     ELSE IF ~allowUnicode
     THEN Analysis(label, FALSE, <<"NonASCIINotAllowed">>)
     ELSE IF ~isPunycode(normalized)
     THEN Analysis(label, FALSE, <<"UnicodeMustUsePunycode">>)
     ELSE IF ~isValidPunycode(normalized)
     THEN Analysis(label, FALSE, <<"InvalidPunycode">>)
     ELSE Analysis(label, reasons = <<>>, reasons)

\* ---- runs of the label filter: one string per behaviour
Repeat(c, n) == [i \in 1..n |-> c]

\* Unicode strings u that are punycode-encoded before the call
UStrings ==
  SeqsUpTo({CP.a, CP.one, CP.underscore, CP.alpha, CP.cyrA, CP.zwsp,
            CP.thaiKo}, MaxULen)

\* labels handed in as they are
RawLabels ==
  SeqsUpTo({CP.a, CP.one, CP.hyphen, CP.A, CP.space, CP.alpha, CP.kelvin},
           MaxRawLen)
    \cup {Repeat(CP.a, MAX_LABEL_LENGTH), Repeat(CP.a, MAX_LABEL_LENGTH + 1),
          <<CP.space>> \o Repeat(CP.a, MAX_LABEL_LENGTH)}

LabelInputs ==
  {[kind |-> "unicode", s |-> u, allowUnicode |-> TRUE] : u \in UStrings}
    \cup {[kind |-> "label", s |-> l, allowUnicode |-> b] :
            l \in RawLabels, b \in BOOLEAN}

InitLabel ==
  /\ InitCore(0)
  /\ linput \in LabelInputs
  /\ lres = NoAnalysis
  /\ InitSearchIdle

LabelUnchanged ==
  /\ UNCHANGED <<now, locks, waitQ, buys>>
  /\ UNCHANGED dbVars
  /\ UNCHANGED buyVars
  /\ UNCHANGED <<mpc, mkey, mcur, counter, spc, sloc, ipc, iloc, iret>>
  /\ UNCHANGED <<rateVars, driverVars, searchVars, statusVars, upstreamVars>>

\* analyzeLabelSafety(l, {allowUnicode})
AnalyzeLabel ==
  /\ linput.kind = "label"
  /\ ~lres.done
  /\ lres' = analyzeLabelSafety(linput.s, linput.allowUnicode)
  /\ UNCHANGED linput
  /\ LabelUnchanged

\* analyzeLabelSafety('xn--' + punycode.encode(u), {allowUnicode: true})
AnalyzeEncoded ==
  /\ linput.kind = "unicode"
  /\ ~lres.done
  /\ lres' = analyzeLabelSafety(XN \o punycode_encode(linput.s), TRUE)
  /\ UNCHANGED linput
  /\ LabelUnchanged

NextLabel == AnalyzeLabel \/ AnalyzeEncoded

SpecLabel == InitLabel /\ [][NextLabel]_vars

\* ---------------------------------------------------- label filter claims
\* the accepted scripts met in u
ScriptsIn(u) == {ScriptOf(u[i]) : i \in 1..Len(u)} \cap Scripts

\* u has no invisible code point and at most one accepted script
CleanSingleScript(u) ==
  /\ \A i \in 1..Len(u) : u[i] \notin INVISIBLE_CODEPOINTS
  /\ Cardinality(ScriptsIn(u)) <= 1

\* C21: for every Unicode string u, analyzeLabelSafety('xn--' +
\* punycode_encode(u), {allowUnicode: true}).safe is true if and only if u
\* has no invisible code point and its characters belong to a single script
\* of the accepted set.
C21_RoundTrip ==
  (lres.done /\ linput.kind = "unicode") =>
    (lres.safe <=> CleanSingleScript(linput.s))

\* l matches ^[a-z0-9](?:[a-z0-9-]*[a-z0-9])?$, has length 1..63 and is not
\* entirely numeric
MatchesLdh(l) ==
  /\ Len(l) >= 1 /\ Len(l) <= MAX_LABEL_LENGTH
  /\ IsLowerAlnum(l[1]) /\ IsLowerAlnum(l[Len(l)])
  /\ \A i \in 1..Len(l) : IsLowerAlnum(l[i]) \/ l[i] = CP.hyphen
  /\ ~(\A i \in 1..Len(l) : IsDigit(l[i]))

SafeAsciiOnly == lres.done /\ linput.kind = "label" /\ ~linput.allowUnicode /\ lres.safe

\* C22 as stated: a label l that analyzeLabelSafety(l, {allowUnicode:
\* false}) calls safe itself matches ^[a-z0-9](?:[a-z0-9-]*[a-z0-9])?$, has
\* length 1..63 and is not entirely numeric.
C22_SafeLabelIsLdh == SafeAsciiOnly => MatchesLdh(linput.s)

\* C22 (amended): a label that analyzeLabelSafety(l, {allowUnicode: false})
\* calls safe matches ^[a-z0-9](?:[a-z0-9-]*[a-z0-9])?$, has length 1..63
\* and is not entirely numeric once it is lowercased and trimmed, and the
\* call reports no reason.
C22_SafeNormalizedIsLdh ==
  SafeAsciiOnly =>
    /\ MatchesLdh(trim(toLowerCase(linput.s)))
    /\ lres.reasons = <<>>

\* a label called safe that is not in normal form itself
C22_Witness ==
  /\ SafeAsciiOnly
  /\ ~MatchesLdh(linput.s)
  /\ Len(linput.s) > 1

\* ------------------------------------------------------- POST /search
\* routes/domains.ts:26-129 with lib/schemas and lib/utils.  A domain is a
\* [label, tld] pair; a candidate also carries what the registrar will
\* answer for it (premium, price_usd in cents).
Absent == 0

\* config ALLOWLIST_TLDS, in insertion order
Allowlists == {<<>>, <<"com">>}

Range(s) == {s[i] : i \in 1..Len(s)}

CandKinds ==
  [label : {<<CP.a>>, <<CP.one>>}, tld : {"com", "xyz"},
   premium : BOOLEAN, price_usd : {900, 1500}]

CandLists ==
  SeqsUpTo(CandKinds, MaxCands)
    \cup {Repeat(k, n) : k \in CandKinds,
                         n \in {DEFAULT_LIMIT, DEFAULT_LIMIT + 1, MAX_CANDIDATES}}

\* "a", "!" and "A a"
Prompts == {<<CP.a>>, <<33>>, <<CP.A, CP.space, CP.a>>}

TldLists == {<<>>, <<"com">>, <<"xyz", "com">>}

SearchBodies ==
  [path : {"search"}, candidates : CandLists, prompt : {<<>>}, tlds : TldLists,
   price_ceiling : {Absent, 1000}, limit : {Absent, 1, MAX_LIMIT},
   include_premium : BOOLEAN, include_unicode : {FALSE},
   gen : {[premium |-> FALSE, price_usd |-> 900]},
   allowlist : Allowlists, user : {TRUE}]
    \cup
  [path : {"search"}, candidates : {<<>>}, prompt : Prompts \cup {<<>>},
   tlds : TldLists, price_ceiling : {Absent, 1000}, limit : {Absent, 1},
   include_premium : BOOLEAN, include_unicode : BOOLEAN,
   gen : [premium : BOOLEAN, price_usd : {900, 1500}],
   allowlist : Allowlists, user : BOOLEAN]

\* z.number().int().positive().max(50).default(10).optional(): the outer
\* optional() answers undefined for a missing field without consulting the
\* inner default
parseLimit(raw) == raw

\* utils.ts:43-48: lower-case, runs of other characters become one '-',
\* leading and trailing '-' removed
RECURSIVE kebabRuns(_, _)
kebabRuns(s, inRun) ==
  IF s = <<>> THEN <<>>
  ELSE IF IsLowerAlnum(Head(s)) THEN <<Head(s)>> \o kebabRuns(Tail(s), FALSE)
  ELSE IF inRun THEN kebabRuns(Tail(s), TRUE)
  ELSE <<CP.hyphen>> \o kebabRuns(Tail(s), TRUE)

RECURSIVE stripHyphens(_)
stripHyphens(s) ==
  IF s # <<>> /\ Head(s) = CP.hyphen THEN stripHyphens(Tail(s))
  ELSE IF s # <<>> /\ s[Len(s)] = CP.hyphen
  THEN stripHyphens(SubSeq(s, 1, Len(s) - 1))
  ELSE s

toKebabCase(str) == stripHyphens(kebabRuns(toLowerCase(str), FALSE))

\* utils.ts:53-58
generateCandidates(prompt, tlds, gen) ==
  LET base == toKebabCase(prompt)
  IN IF base = <<>> THEN <<>>
     ELSE [i \in 1..Len(tlds) |->
             [label |-> base, tld |-> tlds[i], premium |-> gen.premium,
              price_usd |-> gen.price_usd]]

\* schemas validateTlds
validateTldsThrows(tlds, allowlist) ==
  /\ allowlist # <<>>
  /\ tlds # <<>>
  /\ \E i \in 1..Len(tlds) : tlds[i] \notin Range(allowlist)

\* schemas validateDomainsTlds
validateDomainsTldsThrows(domains, allowlist) ==
  /\ allowlist # <<>>
  /\ \E i \in 1..Len(domains) : domains[i].tld \notin Range(allowlist)

Slice(s, n) == SubSeq(s, 1, IF n < Len(s) THEN n ELSE Len(s))

Rejected(e) == [done |-> TRUE, ok |-> FALSE, error |-> e, body |-> <<>>,
                audited |-> FALSE]

\* the handler of POST /search
searchHandler(b) ==
  LET limit == parseLimit(b.limit)
      tlds == IF b.tlds # <<>> THEN b.tlds
              ELSE IF b.allowlist # <<>> THEN b.allowlist
              ELSE <<"com", "net", "org", "io">>
      domainsToCheck == IF b.candidates # <<>> THEN b.candidates
                        ELSE generateCandidates(b.prompt, tlds, b.gen)
      IsSafe(d) == analyzeLabelSafety(d.label, b.include_unicode).safe
      safeDomains == SelectSeq(domainsToCheck, IsSafe)
      NotPremium(r) == ~r.premium
      Affordable(r) == r.price_usd <= b.price_ceiling
      f1 == IF ~b.include_premium THEN SelectSeq(safeDomains, NotPremium)
            ELSE safeDomains
      f2 == IF b.price_ceiling # Absent THEN SelectSeq(f1, Affordable) ELSE f1
      f3 == IF limit # Absent THEN Slice(f2, limit) ELSE f2
  IN IF b.candidates = <<>> /\ b.prompt = <<>>
     THEN Rejected("ValidationError")
     ELSE IF validateTldsThrows(b.tlds, b.allowlist)
     THEN Rejected("TldNotAllowed")
     ELSE IF validateDomainsTldsThrows(domainsToCheck, b.allowlist)
     THEN Rejected("DomainTldNotAllowed")
     ELSE IF safeDomains = <<>> /\ domainsToCheck # <<>>
     THEN Rejected("UnsafeLabel")
     ELSE [done |-> TRUE, ok |-> TRUE, error |-> "", body |-> f3,
           audited |-> b.user]

InitSearch ==
  /\ InitCore(0)
  /\ InitLabelIdle
  /\ sinput \in SearchBodies
  /\ sres = NoResponse

SearchUnchanged ==
  /\ UNCHANGED <<now, locks, waitQ, buys>>
  /\ UNCHANGED dbVars
  /\ UNCHANGED buyVars
  /\ UNCHANGED <<mpc, mkey, mcur, counter, spc, sloc, ipc, iloc, iret>>
  /\ UNCHANGED <<rateVars, driverVars, labelVars, statusVars, upstreamVars>>

\* a search over the candidates of the body
SearchCandidates ==
  /\ ~sres.done
  /\ sinput.candidates # <<>>
  /\ sres' = searchHandler(sinput)
  /\ UNCHANGED sinput
  /\ SearchUnchanged

\* a search over candidates generated from the prompt (or over nothing)
SearchPrompt ==
  /\ ~sres.done
  /\ sinput.candidates = <<>>
  /\ sres' = searchHandler(sinput)
  /\ UNCHANGED sinput
  /\ SearchUnchanged

NextSearch == SearchCandidates \/ SearchPrompt

SpecSearch == InitSearch /\ [][NextSearch]_vars

\* ------------------------------------------------------- search claims
\* the domains the request is about: its candidates, or those generated
\* from the prompt
CandidatesOf(b) ==
  IF b.candidates # <<>> THEN b.candidates
  ELSE generateCandidates(b.prompt,
                          IF b.tlds # <<>> THEN b.tlds
                          ELSE IF b.allowlist # <<>> THEN b.allowlist
                          ELSE <<"com", "net", "org", "io">>,
                          b.gen)

\* the per-domain TLD check refused the request
TldRejected == sres.done /\ sres.error = "DomainTldNotAllowed"

\* C23: with a non-empty TLD allowlist, POST /search rejects the whole
\* request for TLD reasons only if every candidate domain has a disallowed
\* TLD; a request with at least one allowed candidate is not rejected for
\* TLD reasons.
C23_RejectOnlyIfAllDisallowed ==
  (sinput.path = "search" /\ sinput.allowlist # <<>> /\ TldRejected) =>
    \A i \in 1..Len(CandidatesOf(sinput)) :
      CandidatesOf(sinput)[i].tld \notin Range(sinput.allowlist)

\* C24: in the output of POST /search no entry is premium unless
\* include_premium is true, no entry costs more than price_ceiling when one
\* is set, and there are at most limit entries, where limit is 10 when the
\* request omits it.
C24_OutputFiltered ==
  (sres.done /\ sres.ok) =>
    /\ \A i \in 1..Len(sres.body) :
         /\ sres.body[i].premium => sinput.include_premium
         /\ sinput.price_ceiling # Absent =>
              sres.body[i].price_usd <= sinput.price_ceiling
    /\ Len(sres.body) <= (IF sinput.limit = Absent THEN DEFAULT_LIMIT
                          ELSE sinput.limit)

\* ------------------------------------------------- GET /status/:domain
\* domains.ts:448-462: the state reported for a Domain row
StatusState(status) ==
  CASE status = "PURCHASED" -> "purchased"
    [] status = "DNS_APPLIED" -> "dns_applied"
    [] status = "ERROR" -> "error"
    [] OTHER -> "unknown"

\* domains.ts:422-471 for a domain of an allowed TLD
StatusGet(d) ==
  /\ stres' = [domain |-> d,
               state |-> IF domainTbl[d] = "NONE" THEN "unknown"
                         ELSE StatusState(domainTbl[d])]
  /\ UNCHANGED <<now, locks, waitQ, buys>>
  /\ UNCHANGED dbVars
  /\ UNCHANGED buyVars
  /\ UNCHANGED <<mpc, mkey, mcur, counter, spc, sloc, ipc, iloc, iret>>
  /\ UNCHANGED <<rateVars, driverVars, pureVars, upstreamVars>>

\* the steps of one POST /buy on a fresh database
BuySteps(r) ==
  \/ Start(r)
  \/ GetTotal(r)
  \/ BeginFind(r)
  \/ Requote(r)
  \/ Register(r)
  \/ Dns(r)
  \/ DomainUpsert(r)
  \/ PurchaseCreate(r)
  \/ AuditSuccess(r)
  \/ SpendAdd(r)
  \/ SpendAddRead(r)
  \/ IdemCommit(r)
  \/ CatchFail(r)
  \/ CatchAudit(r)

FirstReq == CHOOSE r \in Reqs : \A x \in Reqs : r <= x

NextLifecycle ==
  \/ BuySteps(FirstReq)
  \/ \E d \in Domains : StatusGet(d)

\* one purchase and a client that keeps asking for the status of every
\* domain; each awaited call of the handler completes
SpecLifecycle ==
  /\ Init
  /\ [][NextLifecycle]_vars
  /\ WF_vars(BuySteps(FirstReq))
  /\ \A d \in Domains : WF_vars(StatusGet(d))

\* ---------------------------------------------------- lifecycle claims
\* request r was answered 200 for domain d: register and the DNS step
\* succeeded
BoughtWithDns(r, d) ==
  /\ Done(r)
  /\ result[r].status = 200
  /\ req[r].domain = d
  /\ hist[r].dns

\* C25: after a POST /buy whose DNS step succeeded, the Domain row moves
\* from PURCHASED to DNS_APPLIED, and GET /status/:domain eventually
\* reports the state "dns_applied" for it.
C25_DnsAppliedReported ==
  \A d \in Domains :
    (\E r \in Reqs : BoughtWithDns(r, d)) ~>
      (domainTbl[d] = "DNS_APPLIED" /\ stres = [domain |-> d, state |-> "dns_applied"])

\* --------------------------------------------------- driver error claims
\* C26: every error condition raised inside checkAvailability, quote,
\* register, setNameservers or applyRecords reaches the caller of that
\* operation as an error; none is replaced by a normal-looking result.
C26_ErrorsReachCaller ==
  (dcalls > 0 /\ draised) => dret.outcome = "threw"

\* ------------------------------------------------- mutex order claims
\* c is granted key k in this step: acquire(k) returns to it
Granted(c, k) == mpc[c] # "cs" /\ mpc'[c] = "cs" /\ mkey'[c] = k

\* x awaits the promise of key k and called acquire(k) before c did
WaitsAhead(x, c, k) ==
  /\ mpc[x] = "wait" /\ mkey[x] = k
  /\ \/ mpc[c] = "start"
     \/ \E i, j \in 1..Len(Woken(k)) :
          i < j /\ Woken(k)[i] = x /\ Woken(k)[j] = c

\* C27: callers waiting on one mutex key are granted the lock in the order
\* of their acquire(key) calls and one at a time: a step grants the key to
\* at most one caller, no other caller is then inside its critical section
\* on that key, and no caller that called acquire earlier is left waiting.
C27_FifoOneAtATime ==
  [][\A k \in MutexKeys : \A c \in Callers :
       Granted(c, k) =>
         /\ \A x \in Callers \ {c} : ~Granted(x, k)
         /\ \A x \in Callers \ {c} : ~(mpc'[x] = "cs" /\ mkey'[x] = k)
         /\ \A x \in Callers \ {c} :
              WaitsAhead(x, c, k) => mpc'[x] # "wait"]_vars

\* ------------------------------------------- persistence order claims
\* the step in which request r calls setNameservers or applyRecords
CallsDns(r) == ~hist[r].dns /\ hist'[r].dns

\* C28: inside the guarded region the Domain row (status PURCHASED) and the
\* Purchase row of the order are persisted before setNameservers or
\* applyRecords is called, so a DNS failure after a successful register
\* finds the Domain row with status PURCHASED.
C28_PersistedBeforeDns ==
  [][\A r \in Reqs :
       CallsDns(r) =>
         /\ domainTbl[req[r].domain] = "PURCHASED"
         /\ PurchasesOf(r) # {}]_vars

\* ------------------------------------------------- Idem row claims
\* the steps of the guarded region that lie after spend.add
AfterSpendAdd == {"spendAddRead", "idemCommit", "respond"}

\* spend.add of request r has completed
SpendAddDone(r) ==
  \/ pc[r] \in AfterSpendAdd
  \/ pc[r] \in {"catchFail", "catchAudit", "done"}
       /\ loc[r].failedAt \in AfterSpendAdd
  \/ Done(r) /\ NoThrow(r) /\ GotOrder(r)

\* register and the DNS step succeeded for r, its Domain and Purchase rows
\* are persisted and its spend.add has completed
PurchaseCompleted(r) ==
  /\ hist[r].register /\ GotOrder(r)
  /\ hist[r].dns /\ loc[r].failedAt \notin {"template", "dns"}
  /\ domainTbl[req[r].domain] = "PURCHASED"
  /\ \E p \in PurchasesOf(r) :
       /\ p.domainId = req[r].domain
       /\ p.userId = getUser(req[r])
       /\ p.totalUsd = loc[r].charged
  /\ SpendAddDone(r)

\* every Idem row that has not expired holds the response of a request of
\* its key whose purchase is complete
C29_RowImpliesPurchase ==
  \A k \in BuyKeys :
    (idemRows[k] # NoRow /\ idemRows[k].expiresAt > now) =>
      LET r == CommittedBy(k) IN
      /\ r \in Reqs
      /\ BuyKey(req[r]) = k
      /\ idemRows[k].digest = stableDigest(req[r])
      /\ idemRows[k].response = ToJson(Response(r))
      /\ PurchaseCompleted(r)

\* a row is written only by the idem.commit of a request whose purchase is
\* complete (so never by idem.begin), and spend.add is complete for a
\* request exactly from the step that incremented the ledger
C29_WriteStep ==
  /\ \A k \in BuyKeys :
       (idemRows'[k] # NoRow /\ idemRows'[k] # idemRows[k]) =>
         \E r \in Reqs :
           /\ pc[r] = "idemCommit"
           /\ pc'[r] # pc[r]
           /\ BuyKey(req[r]) = k
           /\ PurchaseCompleted(r)
           /\ idemRows'[k].response = ToJson(Response(r))
  /\ \A r \in Reqs :
       (~SpendAddDone(r) /\ SpendAddDone(r)') =>
         /\ pc[r] = "spendAdd"
         /\ dailySpend' = dailySpendAdd(req[r].acct, todayISO(now),
                                        loc[r].charged)

\* C29: an Idem row is written only by idem.commit, which is reached only
\* after register and the DNS step succeeded, the Domain and Purchase rows
\* were persisted and spend.add completed; idem.begin never writes a row;
\* so every Idem row that has not expired implies a completed purchase for
\* its key.
C29_RowOnlyAfterPurchase == []C29_RowImpliesPurchase /\ [][C29_WriteStep]_vars

\* a committed row is in place, its request was answered 200, and a later
\* request of the same key has been through idem.begin without writing
C29_Witness ==
  \E k \in BuyKeys, r2 \in Reqs :
    /\ idemRows[k] # NoRow
    /\ idemRows[k].expiresAt > now
    /\ Done(CommittedBy(k))
    /\ result[CommittedBy(k)].status = 200
    /\ r2 # CommittedBy(k)
    /\ BuyKey(req[r2]) = k
    /\ Done(r2)
    /\ result[r2].status = 200

\* ------------------------------------------- ledger coverage claims
\* the purchase attempts of account a whose Purchase row is persisted and
\* whose amount spend.add has not added to DailySpend
Unledgered(a) ==
  {r \in Reqs : req[r].acct = a /\ PurchasesOf(r) # {} /\ ~SpendAddDone(r)}

\* r is between purchase.create and the return of spend.add
InFlightToLedger(r) == pc[r] \in {"auditSuccess", "spendAdd"}

\* C30: for every account, the Purchase rows whose totalUsd is not yet in
\* DailySpend belong to at most one purchase attempt, and that attempt is
\* still in flight.
C30_AtMostOneUnledgered ==
  \A a \in Accounts :
    /\ Cardinality(Unledgered(a)) <= 1
    /\ \A r \in Unledgered(a) : InFlightToLedger(r)

\* ------------------------------------------ rate limiter exactness claims
\* a consume(key) call returns in this step
ConsumeReturns == rcalls' = rcalls + 1

\* the timestamps of the key that consume keeps after its filter
InWindow == IF bucket.exists THEN SelectInWindow(bucket.requestTimestamps, rnow)
            ELSE <<>>

\* rateLimit.ts:181 the Retry-After header of the 429 response
RetryAfterHeader(ret) ==
  IF ret.retryAfterSec = 0 THEN DEFAULT_RETRY_AFTER ELSE ret.retryAfterSec

\* C31: consume(key) rejects exactly when at least requestsPerMinute
\* recorded timestamps of the key lie in the last 60 s; below that count
\* the call is allowed whatever the tokens, burstSize and lastRefill.
C31_RejectsExactlyOnWindow ==
  [][ConsumeReturns =>
       (rret'.allowed = FALSE <=> Len(InWindow) >= RATE_LIMIT_RPM)]_vars

\* C32: every rejected consume(key) returns retryAfterSec equal to the
\* seconds, rounded up, until the oldest in-window timestamp of the key
\* leaves the 60 s window, so 1 <= retryAfterSec <= 60, and the middleware
\* sends that value as Retry-After.
C32_RetryAfterIsWindowExit ==
  [][(ConsumeReturns /\ rret'.allowed = FALSE) =>
       /\ InWindow # <<>>
       /\ rret'.retryAfterSec = CeilSec(WINDOW_MS - (rnow - InWindow[1]))
       /\ rret'.retryAfterSec >= 1
       /\ rret'.retryAfterSec * MS_PER_SEC <= WINDOW_MS
       /\ RetryAfterHeader(rret') = rret'.retryAfterSec]_vars

\* the calls answered allowed = true in the 60 s that start with the i-th
AllowedFrom(i) ==
  {j \in i..Len(rallowed) : rallowed[j] - rallowed[i] < WINDOW_MS}

\* C39: for every sequence of consume(key) calls at non-decreasing times,
\* cleanup sweeps included, the calls answered allowed = true within any
\* 60-second interval number at most requestsPerMinute.
C39_AtMostRpmPerWindow ==
  \A i \in 1..Len(rallowed) : Cardinality(AllowedFrom(i)) <= RATE_LIMIT_RPM

\* one window was filled, the window then moved on and a later call was
\* allowed, and the last call was refused
C39_Witness ==
  /\ Len(rallowed) > RATE_LIMIT_RPM
  /\ Cardinality(AllowedFrom(1)) = RATE_LIMIT_RPM
  /\ rret.allowed = FALSE
  /\ ~rticked

\* C40: a rejected consume(key) records no timestamp and takes no token:
\* apart from dropping timestamps older than 60 s the bucket of the key is
\* the same after the call as before it, and consume(key) never touches
\* the bucket of another key.
C40_RejectLeavesBuckets ==
  [][/\ (ConsumeReturns /\ rret'.allowed = FALSE) =>
          /\ bucket'.exists = bucket.exists
          /\ bucket'.tokens = bucket.tokens
          /\ bucket'.lastRefill = bucket.lastRefill
          /\ bucket'.requestTimestamps = InWindow
     /\ ConsumeReturns => obucket' = obucket
     /\ ocalls' = ocalls + 1 => bucket' = bucket]_vars

\* a call refused by the token test some time after the key's last refill,
\* while another key has a bucket of its own
C40_Witness ==
  /\ rret.allowed = FALSE
  /\ ~rticked
  /\ Len(bucket.requestTimestamps) < RATE_LIMIT_RPM
  /\ bucket.tokens = 0
  /\ rnow > bucket.lastRefill
  /\ obucket.exists


\* ---------------------------------------------- upstream call with retries
\* PorkbunProvider.callPorkbun (porkbun.ts:196-286) and
\* NamecheapProvider.callNamecheap (domains.ts:597-695): one call, the
\* upstream's answer to each attempt drawn as an input.
CallDrivers == {"porkbun", "namecheap"}

\* what one fetch can bring: no response at all, or a status with a body
\* that carries a success, carries an API-level error, or is not a document
\* of the API at all (an HTML error page, an empty body)
HttpStatuses == {200, 404, 429, 503}
Bodies == {"success", "apiError", "garbage"}
NetworkFailure == [kind |-> "network", status |-> 0, body |-> ""]
UpstreamOutcomes ==
  {NetworkFailure} \cup [kind : {"http"}, status : HttpStatuses, body : Bodies]

\* response.ok
ResponseOk(o) == o.status >= 200 /\ o.status <= 299

\* porkbun.ts:230, domains.ts:636
RetryableStatus(o) == o.status = 429 \/ o.status >= 500

\* porkbun.ts:231 and 267, domains.ts:637 and 679: attempt < retries
CanRetryAlways(attempt) == TRUE

CanRetry(attempt) == attempt < MAX_ATTEMPTS

\* porkbun.ts:222 response.json() rejects on a body that is not JSON;
\* domains.ts:628 response.text() takes any body
BodyReadThrows(driver, o) == driver = "porkbun" /\ o.body = "garbage"

RetryAgain == [verdict |-> "retry", code |-> ""]
ReturnJson == [verdict |-> "returned", code |-> ""]
ThrowCode(code) == [verdict |-> "threw", code |-> code]

\* the catch block for anything that is not the driver's own error
\* (porkbun.ts:261-282, domains.ts:673-691)
onOtherError(attempt) ==
  IF CanRetry(attempt) THEN RetryAgain ELSE ThrowCode("NETWORK_ERROR")

\* one pass of the loop body with upstream answer o (porkbun.ts:212-282,
\* domains.ts:620-691)
attemptOnce(driver, attempt, o) ==
  IF o.kind = "network" \/ BodyReadThrows(driver, o)
  THEN onOtherError(attempt)
  ELSE IF ~ResponseOk(o)
  THEN IF RetryableStatus(o) /\ CanRetry(attempt)
       THEN RetryAgain
       ELSE ThrowCode("HTTP_ERROR")
  ELSE IF o.body = "garbage"
  THEN ThrowCode("PARSE_ERROR")
  ELSE IF o.body = "apiError"
  THEN ThrowCode("API_ERROR")
  ELSE ReturnJson

UpstreamUnchanged ==
  /\ UNCHANGED <<now, locks, waitQ, buys>>
  /\ UNCHANGED dbVars
  /\ UNCHANGED buyVars
  /\ UNCHANGED <<mpc, mkey, mcur, counter, spc, sloc, ipc, iloc, iret>>
  /\ UNCHANGED <<rateVars, driverVars, pureVars, statusVars>>

\* the driver calls callPorkbun / callNamecheap: attempt = 1
CallStart ==
  /\ ccall.state = "idle"
  /\ \E d \in CallDrivers :
       ccall' = [NoUpstreamCall EXCEPT !.driver = d, !.state = "fetch",
                                       !.attempt = 1]
  /\ pool' = pool
  /\ UpstreamUnchanged

\* the loop test and one pass of the body; after the loop, MAX_RETRIES
\* (porkbun.ts:285, domains.ts:694)
CallAttempt ==
  /\ ccall.state = "fetch"
  /\ IF ccall.attempt > MAX_ATTEMPTS
     THEN ccall' = [ccall EXCEPT !.state = "threw", !.code = "MAX_RETRIES"]
     ELSE \E o \in UpstreamOutcomes :
            LET v == attemptOnce(ccall.driver, ccall.attempt, o) IN
            ccall' = [ccall EXCEPT
                        !.seen = Append(@, o),
                        !.state = IF v.verdict = "retry" THEN "sleep"
                                  ELSE v.verdict,
                        !.code = v.code]
  /\ pool' = pool
  /\ UpstreamUnchanged

\* sleep(2^attempt * 1000) ends, continue: attempt++
CallWake ==
  /\ ccall.state = "sleep"
  /\ ccall' = [ccall EXCEPT !.state = "fetch", !.attempt = @ + 1]
  /\ pool' = pool
  /\ UpstreamUnchanged

NextCall == CallStart \/ CallAttempt \/ CallWake

\* fetch resolves or rejects and timers fire: every step that can be taken
\* is taken
SpecCall == Init /\ [][NextCall]_vars /\ WF_vars(NextCall)

\* ------------------------------------------------------- retry claims
CallEnded == ccall.state \in {"returned", "threw"}

\* the upstream's answer to the latest attempt
LastOutcome == ccall.seen[Len(ccall.seen)]

\* C33: each call through callPorkbun / callNamecheap makes at most 3 HTTP
\* attempts and always ends, by returning or by throwing, whatever the
\* upstream answers.
C33_BoundedAndTerminates ==
  /\ [](Len(ccall.seen) <= MAX_ATTEMPTS /\ ccall.attempt <= MAX_ATTEMPTS)
  /\ (ccall.state = "fetch" ~> CallEnded)

\* three attempts were made, the first two answered 429 and a network
\* failure, and the call has thrown
C33_Witness ==
  /\ ccall.state = "threw"
  /\ Len(ccall.seen) = MAX_ATTEMPTS
  /\ ccall.seen[1].status = 429
  /\ ccall.seen[2] = NetworkFailure

\* C34: a further attempt follows only an HTTP 429, an HTTP 5xx or a
\* network failure; another HTTP error status, and an API-level error in an
\* HTTP-success response, each end the call with an error after that one
\* attempt.
C34_RetryOnlyWhenRetryable ==
  [][Len(ccall'.seen) = Len(ccall.seen) + 1 =>
       LET o == ccall'.seen[Len(ccall'.seen)] IN
       /\ ccall'.state = "sleep" =>
            (o.kind = "network" \/ RetryableStatus(o))
       /\ (o.kind = "http" /\ ~ResponseOk(o) /\ ~RetryableStatus(o)) =>
            ccall'.state = "threw"
       /\ (o.kind = "http" /\ ResponseOk(o) /\ o.body = "apiError") =>
            ccall'.state = "threw"]_vars

\* every attempt of the call met an HTTP 429 or 5xx
AllRetryableStatus ==
  \A i \in 1..Len(ccall.seen) :
    ccall.seen[i].kind = "http" /\ RetryableStatus(ccall.seen[i])

\* every attempt of the call met a network failure
AllNetworkFailures ==
  \A i \in 1..Len(ccall.seen) : ccall.seen[i] = NetworkFailure

\* C37: when all 3 attempts fail with 429/5xx the call throws HTTP_ERROR,
\* when all 3 fail with a network failure it throws NETWORK_ERROR, and
\* MAX_RETRIES is never thrown.
C37_ExhaustionOutcome ==
  /\ ccall.code # "MAX_RETRIES"
  /\ (CallEnded /\ Len(ccall.seen) = MAX_ATTEMPTS /\ AllRetryableStatus) =>
       (ccall.state = "threw" /\ ccall.code = "HTTP_ERROR")
  /\ (CallEnded /\ Len(ccall.seen) = MAX_ATTEMPTS /\ AllNetworkFailures) =>
       (ccall.state = "threw" /\ ccall.code = "NETWORK_ERROR")

\* ------------------------------------------- bounded fan-out (pLimit)
\* pLimit (porkbun.ts:92-115) as used by checkAvailability (341-391): the
\* loop starts one availability call per domain and waits on Promise.race
\* while `executing` is full; a call that ends takes itself out of
\* `executing` before the race is answered.
PoolOutcomes == {"yes", "error"}

\* porkbun.ts:109 executing.length >= limit
AtLimitNever(executing) == FALSE

AtLimit(executing) == Cardinality(executing) >= CONCURRENCY_LIMIT

\* checkAvailability(domains) after getPricing; no domains: return [] (342)
PoolCall ==
  /\ pool.state = "idle"
  /\ \E n \in 0..NumDomains :
       pool' = IF n = 0
               THEN [NoPool EXCEPT !.state = "returned"]
               ELSE [NoPool EXCEPT !.state = "loop", !.n = n, !.next = 1,
                                   !.results = [k \in 1..n |-> "pending"]]
  /\ ccall' = ccall
  /\ UpstreamUnchanged

\* porkbun.ts:100-111 one pass of the loop: fn(item) starts the call, the
\* promise goes to results and executing, then the limit test
PoolStartItem ==
  /\ pool.state = "loop"
  /\ pool.next <= pool.n
  /\ LET executing == pool.executing \cup {pool.next} IN
     pool' = [pool EXCEPT !.executing = executing,
                          !.next = @ + 1,
                          !.state = IF AtLimit(executing) THEN "race"
                                    ELSE "loop"]
  /\ ccall' = ccall
  /\ UpstreamUnchanged

\* porkbun.ts:114 the loop is over: Promise.all(results)
PoolAwaitAll ==
  /\ pool.state = "loop"
  /\ pool.next > pool.n
  /\ pool' = [pool EXCEPT !.state = "all"]
  /\ ccall' = ccall
  /\ UpstreamUnchanged

\* the availability call of item k ends (porkbun.ts:356-387 never rejects:
\* an error becomes available = false); 101-104 splice it out of
\* executing; a pending Promise.race is answered
PoolItemEnds(k) ==
  /\ k \in pool.executing
  /\ \E a \in PoolOutcomes :
       pool' = [pool EXCEPT !.executing = @ \ {k},
                            !.results[k] = a,
                            !.state = IF @ = "race" THEN "loop" ELSE @]
  /\ ccall' = ccall
  /\ UpstreamUnchanged

\* Promise.all(results) is fulfilled: checkAvailability returns
PoolReturn ==
  /\ pool.state = "all"
  /\ \A k \in 1..pool.n : pool.results[k] # "pending"
  /\ pool' = [pool EXCEPT !.state = "returned"]
  /\ ccall' = ccall
  /\ UpstreamUnchanged

NextPool ==
  \/ PoolCall
  \/ PoolStartItem
  \/ PoolAwaitAll
  \/ \E k \in 1..NumDomains : PoolItemEnds(k)
  \/ PoolReturn

\* every availability call ends (see callPorkbun) and the loop runs on
SpecPool ==
  /\ Init
  /\ [][NextPool]_vars
  /\ WF_vars(PoolStartItem)
  /\ WF_vars(PoolAwaitAll)
  /\ WF_vars(PoolReturn)
  /\ \A k \in 1..NumDomains : WF_vars(PoolItemEnds(k))

\* ------------------------------------------------------ fan-out claims
\* the per-domain availability calls in flight
InFlight == pool.executing

Checked(k) == k \in DOMAIN pool.results /\ pool.results[k] # "pending"

PendingAcquire(c) == mpc[c] = "wait"

\* C36: if every caller whose acquire(key) has returned eventually calls
\* release(key), every pending acquire(key) eventually returns: no waiter
\* is left awaiting a promise that is never resolved.
C36_PendingAcquireReturns ==
  \A c \in Callers : PendingAcquire(c) ~> (mpc[c] = "cs")

\* the first holder of a key has released it and the two callers that
\* waited on its promise have both had their acquire return
C36_Witness ==
  \E k \in MutexKeys, a, b, c \in Callers :
    /\ a # b /\ a # c /\ b # c
    /\ mkey[a] = k /\ mkey[b] = k /\ mkey[c] = k
    /\ mpc[a] = "done"
    /\ mpc[b] = "cs" /\ mpc[c] = "cs"
    /\ \A x \in Callers : ~PendingAcquire(x)

\* ------------------------------------------------ pre-guard frame claim
\* the positions of a POST /buy before idem.acquire (domains.ts:138-243)
PreGuardSteps == {"idle", "getTotal", "beginFind", "beginDelete"}

\* request r takes a step that keeps it before the guarded region or
\* answers it there: a rejection, or the replay of the stored response
PreGuardStep(r) ==
  /\ pc[r] \in PreGuardSteps
  /\ pc'[r] # pc[r]
  /\ pc'[r] \in PreGuardSteps \cup {"done"}

\* C38: a POST /buy rejected before the guarded region, or answered from
\* the replay path, leaves the state unchanged: Idem rows, the lock map,
\* Domain, Purchase, DailySpend and AuditLog are not modified and no
\* registrar call that changes anything is made.
C38_PreGuardFrame ==
  [][\A r \in Reqs :
       PreGuardStep(r) =>
         /\ UNCHANGED <<idemRows, locks, waitQ, buys>>
         /\ UNCHANGED <<domainTbl, purchases, dailySpend, audit>>
         /\ ~hist'[r].register
         /\ ~hist'[r].dns
         /\ ~hist'[r].fail]_vars

\* one request bought a domain and committed; a second one with the same
\* key was answered from the replay path or refused for its digest, and a
\* purchase, a ledger entry and an audit entry are there to be left alone
C38_Witness ==
  \E r1, r2 \in Reqs :
    /\ r1 # r2
    /\ Done(r1) /\ result[r1].status = 200 /\ GotOrder(r1)
    /\ Done(r2) /\ ~hist[r2].register
    /\ result[r2].error = "IdempotencyMismatch"
    /\ idemRows[BuyKey(req[r2])] # NoRow
    /\ PurchasesOf(r1) # {}
    /\ audit.BUY_SUCCESS = 1

====
